---------------------------- MODULE Spec2Model ----------------------------
(***************************************************************************)
(* A model of the UUID classification service: the identifier normalizer,  *)
(* the BLE knowledge base, the heuristic classifier, the cache service on  *)
(* its database sessions, the search service and the request handler that  *)
(* sequences them.                                                         *)
(*                                                                         *)
(* Text is modelled as a sequence of one-character strings, so that case   *)
(* folding, hyphen removal, slicing and substring search are computed the  *)
(* way the Python code computes them.                                      *)
(***************************************************************************)
EXTENDS Integers, Sequences, FiniteSets, TLC

\* ------------------------------------------------------------------ text

UpperLetters == {"A","B","C","D","E","F","G","H","I","J","K","L","M",
                 "N","O","P","Q","R","S","T","U","V","W","X","Y","Z"}

LowerLetters == {"a","b","c","d","e","f","g","h","i","j","k","l","m",
                 "n","o","p","q","r","s","t","u","v","w","x","y","z"}

Digits == {"0","1","2","3","4","5","6","7","8","9"}

\* the character class [0-9a-fA-F] of UUID_PATTERN
HexChars == Digits \cup {"a","b","c","d","e","f"} \cup {"A","B","C","D","E","F"}

ToLower == [c \in UpperLetters |->
              CASE c = "A" -> "a" [] c = "B" -> "b" [] c = "C" -> "c" [] c = "D" -> "d"
                [] c = "E" -> "e" [] c = "F" -> "f" [] c = "G" -> "g" [] c = "H" -> "h"
                [] c = "I" -> "i" [] c = "J" -> "j" [] c = "K" -> "k" [] c = "L" -> "l"
                [] c = "M" -> "m" [] c = "N" -> "n" [] c = "O" -> "o" [] c = "P" -> "p"
                [] c = "Q" -> "q" [] c = "R" -> "r" [] c = "S" -> "s" [] c = "T" -> "t"
                [] c = "U" -> "u" [] c = "V" -> "v" [] c = "W" -> "w" [] c = "X" -> "x"
                [] c = "Y" -> "y" [] c = "Z" -> "z"]

LowerChar(c) == IF c \in UpperLetters THEN ToLower[c] ELSE c

\* str.lower(), the result a sequence in its enumerated form
Lower(t) == SubSeq([i \in 1..Len(t) |-> LowerChar(t[i])], 1, Len(t))

\* str.replace("-", "")
RemoveHyphens(t) == SelectSeq(t, LAMBDA c : c # "-")

\* Python's t[a:b] for 0 <= a, counted from 0, clamped to the length of t
Slice(t, a, b) ==
    LET hi == IF b < Len(t) THEN b ELSE Len(t)
    IN  IF a >= hi THEN <<>> ELSE SubSeq(t, a + 1, hi)

\* Python's t[a:]
SliceFrom(t, a) == Slice(t, a, Len(t))

\* ------------------------------------------------ identifier normalizer

\* the lengths of the five hexadecimal groups of UUID_PATTERN
GroupLengths == <<8, 4, 4, 4, 12>>

\* [0-9a-fA-F]{n} at position i (1-based) of t
HexRun(t, i, n) ==
    /\ i + n - 1 <= Len(t)
    /\ \A k \in i..(i + n - 1) : t[k] \in HexChars

\* the position after "-?" at position i: a hyphen there is consumed, since
\* the next group cannot start with one
OptHyphen(t, i) == IF i <= Len(t) /\ t[i] = "-" THEN i + 1 ELSE i

\* the position after groups g..5 matched from position i, or 0 on failure
RECURSIVE MatchGroups(_, _, _)
MatchGroups(t, i, g) ==
    IF ~HexRun(t, i, GroupLengths[g]) THEN 0
    ELSE IF g = Len(GroupLengths) THEN i + GroupLengths[g]
    ELSE MatchGroups(t, OptHyphen(t, i + GroupLengths[g]), g + 1)

\* UUID_PATTERN.match(t): "^...$" without re.MULTILINE, where "$" matches at
\* the end of the string and also just before a newline that ends the string
UUID_PATTERN_match(t) ==
    LET e == MatchGroups(t, 1, 1)
    IN  /\ e # 0
        /\ \/ e = Len(t) + 1
           \/ e = Len(t) /\ t[e] = "\n"

\* schemas.classification.normalize_uuid: no validation of its own
schemas_normalize_uuid(value) ==
    LET clean == Lower(RemoveHyphens(value))
    IN  Slice(clean, 0, 8) \o <<"-">> \o Slice(clean, 8, 12) \o <<"-">>
          \o Slice(clean, 12, 16) \o <<"-">> \o Slice(clean, 16, 20) \o <<"-">>
          \o SliceFrom(clean, 20)

\* a normalize_uuid that puts the hyphens in without removing those the
\* string has
models_normalize_uuid_keeps_hyphens(uuid_str) ==
    IF ~UUID_PATTERN_match(uuid_str)
    THEN [ok |-> FALSE, val |-> <<>>]
    ELSE [ok |-> TRUE,
          val |-> Slice(Lower(uuid_str), 0, 8) \o <<"-">> \o Slice(Lower(uuid_str), 8, 12)
                    \o <<"-">> \o Slice(Lower(uuid_str), 12, 16) \o <<"-">>
                    \o Slice(Lower(uuid_str), 16, 20) \o <<"-">>
                    \o SliceFrom(Lower(uuid_str), 20)]

\* db.models.normalize_uuid: raises ValueError (ok = FALSE) on a mismatch
models_normalize_uuid(uuid_str) ==
    IF ~UUID_PATTERN_match(uuid_str)
    THEN [ok |-> FALSE, val |-> <<>>]
    ELSE LET clean == Lower(RemoveHyphens(uuid_str))
         IN  [ok |-> TRUE,
              val |-> Slice(clean, 0, 8) \o <<"-">> \o Slice(clean, 8, 12) \o <<"-">>
                        \o Slice(clean, 12, 16) \o <<"-">> \o Slice(clean, 16, 20)
                        \o <<"-">> \o SliceFrom(clean, 20)]

\* the field validator of ClassificationResponse, ClassificationCreate and
\* UUIDRequest: a ValueError (ok = FALSE) on a mismatch, else the normal form
validate_and_normalize_uuid(v) ==
    IF ~UUID_PATTERN_match(v)
    THEN [ok |-> FALSE, val |-> <<>>]
    ELSE [ok |-> TRUE, val |-> schemas_normalize_uuid(v)]

\* router.validate_uuid_format: HTTP 400 (ok = FALSE) on a mismatch
validate_uuid_format(uuid) ==
    IF ~UUID_PATTERN_match(uuid)
    THEN [ok |-> FALSE, val |-> <<>>]
    ELSE [ok |-> TRUE, val |-> schemas_normalize_uuid(uuid)]

\* ---------------------------------------------------------- identifiers

\* the Heart Rate service of the knowledge base, in canonical form
HeartRateUuid == <<"0","0","0","0","1","8","0","d","-","0","0","0","0","-","1","0","0","0","-","8","0","0","0","-","0","0","8","0","5","f","9","b","3","4","f","b">>

\* an identifier outside the Bluetooth SIG base form, in canonical form
UnknownUuid == <<"1","2","3","4","5","6","7","8","-","1","2","3","4","-","1","2","3","4","-","1","2","3","4","-","1","2","3","4","5","6","7","8","9","a","b","c">>

\* raw identifiers a caller may send
RawUnknownUpperNoHyphens == <<"1","2","3","4","5","6","7","8","1","2","3","4","1","2","3","4","1","2","3","4","1","2","3","4","5","6","7","8","9","A","B","C">>
RawHeartRateUpper == <<"0","0","0","0","1","8","0","D","-","0","0","0","0","-","1","0","0","0","-","8","0","0","0","-","0","0","8","0","5","F","9","B","3","4","F","B">>
RawNotAUuid == <<"n","o","t","-","a","-","u","u","i","d">>
RawTrailingNewline == <<"1","2","3","4","5","6","7","8","-","1","2","3","4","-","1","2","3","4","-","1","2","3","4","-","1","2","3","4","5","6","7","8","9","a","b","c","\n">>

\* ------------------------------------------------------- knowledge base

\* BLUETOOTH_SIG_UUID_PATTERN, "^0000([0-9a-f]{4})-0000-1000-8000-00805f9b34fb$"
\* with re.IGNORECASE: the text before and after the four captured characters
BLUETOOTH_SIG_PREFIX == <<"0","0","0","0">>

BLUETOOTH_SIG_BASE_SUFFIX == <<"-","0","0","0","0","-","1","0","0","0","-","8","0","0","0","-","0","0","8","0","5","f","9","b","3","4","f","b">>

KNOWN_BLE_SERVICES ==
    {
      [key |-> <<"1","8","0","0">>, uuid_short |-> <<"1","8","0","0">>,
       name |-> <<"G","e","n","e","r","i","c"," ","A","c","c","e","s","s">>,
       description |-> <<"G","e","n","e","r","i","c"," ","A","c","c","e","s","s"," ","P","r","o","f","i","l","e"," ","s","e","r","v","i","c","e"," ","f","o","r"," ","d","e","v","i","c","e"," ","n","a","m","e"," ","a","n","d"," ","a","p","p","e","a","r","a","n","c","e">>],
      [key |-> <<"1","8","0","1">>, uuid_short |-> <<"1","8","0","1">>,
       name |-> <<"G","e","n","e","r","i","c"," ","A","t","t","r","i","b","u","t","e">>,
       description |-> <<"G","e","n","e","r","i","c"," ","A","t","t","r","i","b","u","t","e"," ","P","r","o","f","i","l","e"," ","s","e","r","v","i","c","e"," ","f","o","r"," ","s","e","r","v","i","c","e"," ","d","i","s","c","o","v","e","r","y">>],
      [key |-> <<"1","8","0","2">>, uuid_short |-> <<"1","8","0","2">>,
       name |-> <<"I","m","m","e","d","i","a","t","e"," ","A","l","e","r","t">>,
       description |-> <<"I","m","m","e","d","i","a","t","e"," ","A","l","e","r","t"," ","s","e","r","v","i","c","e"," ","f","o","r"," ","a","l","e","r","t","i","n","g"," ","d","e","v","i","c","e","s">>],
      [key |-> <<"1","8","0","3">>, uuid_short |-> <<"1","8","0","3">>,
       name |-> <<"L","i","n","k"," ","L","o","s","s">>,
       description |-> <<"L","i","n","k"," ","L","o","s","s"," ","s","e","r","v","i","c","e"," ","f","o","r"," ","p","r","o","x","i","m","i","t","y"," ","d","e","t","e","c","t","i","o","n">>],
      [key |-> <<"1","8","0","4">>, uuid_short |-> <<"1","8","0","4">>,
       name |-> <<"T","x"," ","P","o","w","e","r">>,
       description |-> <<"T","x"," ","P","o","w","e","r"," ","s","e","r","v","i","c","e"," ","f","o","r"," ","t","r","a","n","s","m","i","s","s","i","o","n"," ","p","o","w","e","r"," ","r","e","p","o","r","t","i","n","g">>],
      [key |-> <<"1","8","0","5">>, uuid_short |-> <<"1","8","0","5">>,
       name |-> <<"C","u","r","r","e","n","t"," ","T","i","m","e">>,
       description |-> <<"C","u","r","r","e","n","t"," ","T","i","m","e"," ","s","e","r","v","i","c","e"," ","f","o","r"," ","t","i","m","e"," ","s","y","n","c","h","r","o","n","i","z","a","t","i","o","n">>],
      [key |-> <<"1","8","0","6">>, uuid_short |-> <<"1","8","0","6">>,
       name |-> <<"R","e","f","e","r","e","n","c","e"," ","T","i","m","e"," ","U","p","d","a","t","e">>,
       description |-> <<"R","e","f","e","r","e","n","c","e"," ","T","i","m","e"," ","U","p","d","a","t","e"," ","s","e","r","v","i","c","e"," ","f","o","r"," ","t","i","m","e"," ","c","a","l","i","b","r","a","t","i","o","n">>],
      [key |-> <<"1","8","0","7">>, uuid_short |-> <<"1","8","0","7">>,
       name |-> <<"N","e","x","t"," ","D","S","T"," ","C","h","a","n","g","e">>,
       description |-> <<"N","e","x","t"," ","D","S","T"," ","C","h","a","n","g","e"," ","s","e","r","v","i","c","e"," ","f","o","r"," ","d","a","y","l","i","g","h","t"," ","s","a","v","i","n","g"," ","t","i","m","e"," ","u","p","d","a","t","e","s">>],
      [key |-> <<"1","8","0","8">>, uuid_short |-> <<"1","8","0","8">>,
       name |-> <<"G","l","u","c","o","s","e">>,
       description |-> <<"G","l","u","c","o","s","e"," ","s","e","r","v","i","c","e"," ","f","o","r"," ","b","l","o","o","d"," ","g","l","u","c","o","s","e"," ","m","o","n","i","t","o","r","i","n","g">>],
      [key |-> <<"1","8","0","9">>, uuid_short |-> <<"1","8","0","9">>,
       name |-> <<"H","e","a","l","t","h"," ","T","h","e","r","m","o","m","e","t","e","r">>,
       description |-> <<"H","e","a","l","t","h"," ","T","h","e","r","m","o","m","e","t","e","r"," ","s","e","r","v","i","c","e"," ","f","o","r"," ","b","o","d","y"," ","t","e","m","p","e","r","a","t","u","r","e"," ","m","e","a","s","u","r","e","m","e","n","t">>],
      [key |-> <<"1","8","0","a">>, uuid_short |-> <<"1","8","0","A">>,
       name |-> <<"D","e","v","i","c","e"," ","I","n","f","o","r","m","a","t","i","o","n">>,
       description |-> <<"D","e","v","i","c","e"," ","I","n","f","o","r","m","a","t","i","o","n"," ","s","e","r","v","i","c","e"," ","f","o","r"," ","m","a","n","u","f","a","c","t","u","r","e","r"," ","a","n","d"," ","m","o","d","e","l"," ","d","a","t","a">>],
      [key |-> <<"1","8","0","d">>, uuid_short |-> <<"1","8","0","D">>,
       name |-> <<"H","e","a","r","t"," ","R","a","t","e">>,
       description |-> <<"H","e","a","r","t"," ","R","a","t","e"," ","s","e","r","v","i","c","e"," ","f","o","r"," ","h","e","a","r","t"," ","r","a","t","e"," ","m","o","n","i","t","o","r","i","n","g">>],
      [key |-> <<"1","8","0","e">>, uuid_short |-> <<"1","8","0","E">>,
       name |-> <<"P","h","o","n","e"," ","A","l","e","r","t"," ","S","t","a","t","u","s">>,
       description |-> <<"P","h","o","n","e"," ","A","l","e","r","t"," ","S","t","a","t","u","s"," ","s","e","r","v","i","c","e"," ","f","o","r"," ","p","h","o","n","e"," ","a","l","e","r","t","s">>],
      [key |-> <<"1","8","0","f">>, uuid_short |-> <<"1","8","0","F">>,
       name |-> <<"B","a","t","t","e","r","y"," ","S","e","r","v","i","c","e">>,
       description |-> <<"B","a","t","t","e","r","y"," ","S","e","r","v","i","c","e"," ","f","o","r"," ","b","a","t","t","e","r","y"," ","l","e","v","e","l"," ","r","e","p","o","r","t","i","n","g">>],
      [key |-> <<"1","8","1","0">>, uuid_short |-> <<"1","8","1","0">>,
       name |-> <<"B","l","o","o","d"," ","P","r","e","s","s","u","r","e">>,
       description |-> <<"B","l","o","o","d"," ","P","r","e","s","s","u","r","e"," ","s","e","r","v","i","c","e"," ","f","o","r"," ","b","l","o","o","d"," ","p","r","e","s","s","u","r","e"," ","m","o","n","i","t","o","r","i","n","g">>],
      [key |-> <<"1","8","1","1">>, uuid_short |-> <<"1","8","1","1">>,
       name |-> <<"A","l","e","r","t"," ","N","o","t","i","f","i","c","a","t","i","o","n">>,
       description |-> <<"A","l","e","r","t"," ","N","o","t","i","f","i","c","a","t","i","o","n"," ","s","e","r","v","i","c","e"," ","f","o","r"," ","p","u","s","h"," ","n","o","t","i","f","i","c","a","t","i","o","n","s">>],
      [key |-> <<"1","8","1","2">>, uuid_short |-> <<"1","8","1","2">>,
       name |-> <<"H","u","m","a","n"," ","I","n","t","e","r","f","a","c","e"," ","D","e","v","i","c","e">>,
       description |-> <<"H","u","m","a","n"," ","I","n","t","e","r","f","a","c","e"," ","D","e","v","i","c","e"," ","s","e","r","v","i","c","e"," ","f","o","r"," ","H","I","D"," ","o","v","e","r"," ","G","A","T","T">>],
      [key |-> <<"1","8","1","3">>, uuid_short |-> <<"1","8","1","3">>,
       name |-> <<"S","c","a","n"," ","P","a","r","a","m","e","t","e","r","s">>,
       description |-> <<"S","c","a","n"," ","P","a","r","a","m","e","t","e","r","s"," ","s","e","r","v","i","c","e"," ","f","o","r"," ","s","c","a","n"," ","c","o","n","f","i","g","u","r","a","t","i","o","n">>],
      [key |-> <<"1","8","1","4">>, uuid_short |-> <<"1","8","1","4">>,
       name |-> <<"R","u","n","n","i","n","g"," ","S","p","e","e","d"," ","a","n","d"," ","C","a","d","e","n","c","e">>,
       description |-> <<"R","u","n","n","i","n","g"," ","S","p","e","e","d"," ","a","n","d"," ","C","a","d","e","n","c","e"," ","s","e","r","v","i","c","e"," ","f","o","r"," ","f","i","t","n","e","s","s"," ","t","r","a","c","k","i","n","g">>],
      [key |-> <<"1","8","1","6">>, uuid_short |-> <<"1","8","1","6">>,
       name |-> <<"C","y","c","l","i","n","g"," ","S","p","e","e","d"," ","a","n","d"," ","C","a","d","e","n","c","e">>,
       description |-> <<"C","y","c","l","i","n","g"," ","S","p","e","e","d"," ","a","n","d"," ","C","a","d","e","n","c","e"," ","s","e","r","v","i","c","e"," ","f","o","r"," ","c","y","c","l","i","n","g"," ","f","i","t","n","e","s","s">>],
      [key |-> <<"1","8","1","8">>, uuid_short |-> <<"1","8","1","8">>,
       name |-> <<"C","y","c","l","i","n","g"," ","P","o","w","e","r">>,
       description |-> <<"C","y","c","l","i","n","g"," ","P","o","w","e","r"," ","s","e","r","v","i","c","e"," ","f","o","r"," ","p","o","w","e","r"," ","m","e","t","e","r","s">>],
      [key |-> <<"1","8","1","9">>, uuid_short |-> <<"1","8","1","9">>,
       name |-> <<"L","o","c","a","t","i","o","n"," ","a","n","d"," ","N","a","v","i","g","a","t","i","o","n">>,
       description |-> <<"L","o","c","a","t","i","o","n"," ","a","n","d"," ","N","a","v","i","g","a","t","i","o","n"," ","s","e","r","v","i","c","e"," ","f","o","r"," ","G","P","S"," ","d","a","t","a">>],
      [key |-> <<"1","8","1","a">>, uuid_short |-> <<"1","8","1","A">>,
       name |-> <<"E","n","v","i","r","o","n","m","e","n","t","a","l"," ","S","e","n","s","i","n","g">>,
       description |-> <<"E","n","v","i","r","o","n","m","e","n","t","a","l"," ","S","e","n","s","i","n","g"," ","s","e","r","v","i","c","e"," ","f","o","r"," ","e","n","v","i","r","o","n","m","e","n","t","a","l"," ","d","a","t","a">>],
      [key |-> <<"1","8","1","c">>, uuid_short |-> <<"1","8","1","C">>,
       name |-> <<"U","s","e","r"," ","D","a","t","a">>,
       description |-> <<"U","s","e","r"," ","D","a","t","a"," ","s","e","r","v","i","c","e"," ","f","o","r"," ","u","s","e","r"," ","p","r","o","f","i","l","e"," ","i","n","f","o","r","m","a","t","i","o","n">>],
      [key |-> <<"1","8","1","d">>, uuid_short |-> <<"1","8","1","D">>,
       name |-> <<"W","e","i","g","h","t"," ","S","c","a","l","e">>,
       description |-> <<"W","e","i","g","h","t"," ","S","c","a","l","e"," ","s","e","r","v","i","c","e"," ","f","o","r"," ","b","o","d","y"," ","w","e","i","g","h","t"," ","m","e","a","s","u","r","e","m","e","n","t">>],
      [key |-> <<"1","8","1","e">>, uuid_short |-> <<"1","8","1","E">>,
       name |-> <<"B","o","n","d"," ","M","a","n","a","g","e","m","e","n","t">>,
       description |-> <<"B","o","n","d"," ","M","a","n","a","g","e","m","e","n","t"," ","s","e","r","v","i","c","e"," ","f","o","r"," ","p","a","i","r","i","n","g"," ","m","a","n","a","g","e","m","e","n","t">>],
      [key |-> <<"1","8","1","f">>, uuid_short |-> <<"1","8","1","F">>,
       name |-> <<"C","o","n","t","i","n","u","o","u","s"," ","G","l","u","c","o","s","e"," ","M","o","n","i","t","o","r","i","n","g">>,
       description |-> <<"C","o","n","t","i","n","u","o","u","s"," ","G","l","u","c","o","s","e"," ","M","o","n","i","t","o","r","i","n","g"," ","s","e","r","v","i","c","e"," ","f","o","r"," ","C","G","M"," ","d","e","v","i","c","e","s">>],
      [key |-> <<"1","8","2","0">>, uuid_short |-> <<"1","8","2","0">>,
       name |-> <<"I","n","t","e","r","n","e","t"," ","P","r","o","t","o","c","o","l"," ","S","u","p","p","o","r","t">>,
       description |-> <<"I","n","t","e","r","n","e","t"," ","P","r","o","t","o","c","o","l"," ","S","u","p","p","o","r","t"," ","s","e","r","v","i","c","e"," ","f","o","r"," ","I","P"," ","c","o","n","n","e","c","t","i","v","i","t","y">>],
      [key |-> <<"1","8","2","1">>, uuid_short |-> <<"1","8","2","1">>,
       name |-> <<"I","n","d","o","o","r"," ","P","o","s","i","t","i","o","n","i","n","g">>,
       description |-> <<"I","n","d","o","o","r"," ","P","o","s","i","t","i","o","n","i","n","g"," ","s","e","r","v","i","c","e"," ","f","o","r"," ","i","n","d","o","o","r"," ","l","o","c","a","t","i","o","n">>],
      [key |-> <<"1","8","2","2">>, uuid_short |-> <<"1","8","2","2">>,
       name |-> <<"P","u","l","s","e"," ","O","x","i","m","e","t","e","r">>,
       description |-> <<"P","u","l","s","e"," ","O","x","i","m","e","t","e","r"," ","s","e","r","v","i","c","e"," ","f","o","r"," ","S","p","O","2"," ","m","e","a","s","u","r","e","m","e","n","t">>],
      [key |-> <<"1","8","2","3">>, uuid_short |-> <<"1","8","2","3">>,
       name |-> <<"H","T","T","P"," ","P","r","o","x","y">>,
       description |-> <<"H","T","T","P"," ","P","r","o","x","y"," ","s","e","r","v","i","c","e"," ","f","o","r"," ","w","e","b"," ","a","c","c","e","s","s"," ","v","i","a"," ","B","L","E">>],
      [key |-> <<"1","8","2","4">>, uuid_short |-> <<"1","8","2","4">>,
       name |-> <<"T","r","a","n","s","p","o","r","t"," ","D","i","s","c","o","v","e","r","y">>,
       description |-> <<"T","r","a","n","s","p","o","r","t"," ","D","i","s","c","o","v","e","r","y"," ","s","e","r","v","i","c","e"," ","f","o","r"," ","t","r","a","n","s","p","o","r","t"," ","d","i","s","c","o","v","e","r","y">>],
      [key |-> <<"1","8","2","5">>, uuid_short |-> <<"1","8","2","5">>,
       name |-> <<"O","b","j","e","c","t"," ","T","r","a","n","s","f","e","r">>,
       description |-> <<"O","b","j","e","c","t"," ","T","r","a","n","s","f","e","r"," ","s","e","r","v","i","c","e"," ","f","o","r"," ","f","i","l","e"," ","t","r","a","n","s","f","e","r">>],
      [key |-> <<"1","8","2","6">>, uuid_short |-> <<"1","8","2","6">>,
       name |-> <<"F","i","t","n","e","s","s"," ","M","a","c","h","i","n","e">>,
       description |-> <<"F","i","t","n","e","s","s"," ","M","a","c","h","i","n","e"," ","s","e","r","v","i","c","e"," ","f","o","r"," ","f","i","t","n","e","s","s"," ","e","q","u","i","p","m","e","n","t">>],
      [key |-> <<"1","8","2","7">>, uuid_short |-> <<"1","8","2","7">>,
       name |-> <<"M","e","s","h"," ","P","r","o","v","i","s","i","o","n","i","n","g">>,
       description |-> <<"M","e","s","h"," ","P","r","o","v","i","s","i","o","n","i","n","g"," ","s","e","r","v","i","c","e"," ","f","o","r"," ","B","l","u","e","t","o","o","t","h"," ","M","e","s","h">>],
      [key |-> <<"1","8","2","8">>, uuid_short |-> <<"1","8","2","8">>,
       name |-> <<"M","e","s","h"," ","P","r","o","x","y">>,
       description |-> <<"M","e","s","h"," ","P","r","o","x","y"," ","s","e","r","v","i","c","e"," ","f","o","r"," ","B","l","u","e","t","o","o","t","h"," ","M","e","s","h">>]
    }

VENDOR_INDICATORS ==
    << <<"a","p","p","l","e">>,
       <<"s","a","m","s","u","n","g">>,
       <<"g","o","o","g","l","e">>,
       <<"f","i","t","b","i","t">>,
       <<"g","a","r","m","i","n">>,
       <<"n","o","r","d","i","c">>,
       <<"n","o","r","d","i","c"," ","s","e","m","i","c","o","n","d","u","c","t","o","r">>,
       <<"t","e","x","a","s"," ","i","n","s","t","r","u","m","e","n","t","s">>,
       <<"s","i","l","i","c","o","n"," ","l","a","b","s">>,
       <<"e","s","p","r","e","s","s","i","f">>,
       <<"q","u","a","l","c","o","m","m">>,
       <<"b","r","o","a","d","c","o","m">>,
       <<"x","i","a","o","m","i">>,
       <<"h","u","a","w","e","i">>,
       <<"m","i","c","r","o","s","o","f","t">>,
       <<"a","m","a","z","o","n">>,
       <<"n","r","f">> >>

IBEACON_INDICATORS ==
    << <<"i","b","e","a","c","o","n">>,
       <<"i","-","b","e","a","c","o","n">>,
       <<"a","p","p","l","e"," ","b","e","a","c","o","n">>,
       <<"p","r","o","x","i","m","i","t","y"," ","u","u","i","d">> >>

EDDYSTONE_INDICATORS ==
    << <<"e","d","d","y","s","t","o","n","e">>,
       <<"g","o","o","g","l","e"," ","b","e","a","c","o","n">>,
       <<"e","d","d","y","s","t","o","n","e","-","u","i","d">>,
       <<"e","d","d","y","s","t","o","n","e","-","u","r","l">>,
       <<"e","d","d","y","s","t","o","n","e","-","t","l","m">>,
       <<"e","d","d","y","s","t","o","n","e","-","e","i","d">> >>

AUTHORITATIVE_DOMAINS ==
    << <<"b","l","u","e","t","o","o","t","h",".","c","o","m">>,
       <<"b","l","u","e","t","o","o","t","h",".","o","r","g">>,
       <<"d","e","v","e","l","o","p","e","r",".","a","p","p","l","e",".","c","o","m">>,
       <<"d","e","v","e","l","o","p","e","r",".","a","n","d","r","o","i","d",".","c","o","m">>,
       <<"d","e","v","e","l","o","p","e","r",".","n","o","r","d","i","c","s","e","m","i",".","c","o","m">>,
       <<"i","n","f","o","c","e","n","t","e","r",".","n","o","r","d","i","c","s","e","m","i",".","c","o","m">>,
       <<"t","i",".","c","o","m">>,
       <<"s","i","l","a","b","s",".","c","o","m">> >>

\* BLUETOOTH_SIG_UUID_PATTERN.match(uuid) is not None
is_bluetooth_sig_uuid(uuid) ==
    LET n == Len(BLUETOOTH_SIG_PREFIX) + 4 + Len(BLUETOOTH_SIG_BASE_SUFFIX)
        body == IF Len(uuid) = n + 1 /\ uuid[n + 1] = "\n"
                THEN SubSeq(uuid, 1, n) ELSE uuid
    IN  /\ Len(body) = n
        /\ Lower(SubSeq(body, 1, 4)) = BLUETOOTH_SIG_PREFIX
        /\ HexRun(body, 5, 4)
        /\ Lower(SubSeq(body, 9, n)) = BLUETOOTH_SIG_BASE_SUFFIX

\* the captured group in lower case, or <<>> for None
extract_short_uuid(uuid) ==
    IF is_bluetooth_sig_uuid(uuid) THEN Lower(SubSeq(uuid, 5, 8)) ELSE <<>>

\* KNOWN_BLE_SERVICES.get(short_uuid): found = FALSE for None
get_known_service(uuid) ==
    LET short_uuid == extract_short_uuid(uuid)
        hits == {k \in KNOWN_BLE_SERVICES : k.key = short_uuid}
    IN  IF short_uuid # <<>> /\ hits # {}
        THEN [found |-> TRUE, service |-> CHOOSE k \in hits : TRUE]
        ELSE [found |-> FALSE,
              service |-> [key |-> <<>>, uuid_short |-> <<>>,
                           name |-> <<>>, description |-> <<>>]]

\* needle in hay
Contains(hay, needle) ==
    \E i \in 1..(Len(hay) - Len(needle) + 1) :
        \A k \in 1..Len(needle) : hay[i + k - 1] = needle[k]

\* any(x in text for x in indicators)
AnyIn(indicators, text) ==
    \E k \in 1..Len(indicators) : Contains(text, indicators[k])

is_authoritative_source(url) == AnyIn(AUTHORITATIVE_DOMAINS, Lower(url))

\* -------------------------------------------------------------- schemas

\* the values of ClassificationType and ConfidenceLevel
STANDARD_BLE_SERVICE == "Standard BLE Service"
VENDOR_SPECIFIC == "Vendor-Specific"
APPLE_IBEACON == "Apple iBeacon"
GOOGLE_EDDYSTONE == "Google Eddystone"
CUSTOM_SERVICE == "Custom Service"
UNKNOWN == "Unknown"

HIGH == "high"
MEDIUM == "medium"
LOW == "low"

\* t.startswith(prefix)
StartsWith(t, prefix) ==
    Len(t) >= Len(prefix) /\ SubSeq(t, 1, Len(prefix)) = prefix

\* the position of the first "/" of t at or after position i, or Len(t) + 1
RECURSIVE FirstSlash(_, _)
FirstSlash(t, i) ==
    IF i > Len(t) \/ t[i] = "/" THEN i ELSE FirstSlash(t, i + 1)

\* pydantic's HttpUrl(url): scheme http or https and a non-empty host are
\* required (a ValueError, ok = FALSE, otherwise); the value is kept in its
\* normal form, scheme and host in lower case and "/" for an empty path
HttpUrl(url) ==
    LET low == Lower(url)
        n == IF StartsWith(low, <<"h","t","t","p",":","/","/">>) THEN 7
             ELSE IF StartsWith(low, <<"h","t","t","p","s",":","/","/">>) THEN 8 ELSE 0
        slash == FirstSlash(url, n + 1)
    IN  IF n = 0 \/ slash = n + 1
        THEN [ok |-> FALSE, val |-> <<>>]
        ELSE [ok |-> TRUE,
              val |-> IF slash > Len(url)
                      THEN low \o <<"/">>
                      ELSE SubSeq(low, 1, slash - 1) \o SubSeq(url, slash, Len(url))]

\* SourceInfo(title=..., url=..., snippet=...): title and snippet have
\* min_length 1 and url is an HttpUrl; ok = FALSE is the ValidationError
SourceInfo(title, url, snippet) ==
    LET u == HttpUrl(url)
    IN  [ok |-> Len(title) >= 1 /\ Len(snippet) >= 1 /\ u.ok,
         title |-> title, url |-> u.val, snippet |-> snippet]

\* ClassificationCreate(...): the uuid validator normalizes the identifier
\* or fails (ok = FALSE); no validator corrects the confidence
ClassificationCreate(uuid, name, type, description, sources, confidence, searched_at) ==
    LET v == validate_and_normalize_uuid(uuid)
    IN  [ok |-> v.ok, uuid |-> v.val, name |-> name, type |-> type,
         description |-> description, sources |-> sources,
         confidence |-> confidence, searched_at |-> searched_at]

\* a ClassificationResponse without validate_unknown_has_low_confidence
ClassificationResponse_unchecked(uuid, name, type, description, sources, confidence, cached, searched_at) ==
    [ok |-> validate_and_normalize_uuid(uuid).ok,
     uuid |-> validate_and_normalize_uuid(uuid).val, name |-> name, type |-> type,
     description |-> description, sources |-> sources, confidence |-> confidence,
     cached |-> cached, searched_at |-> searched_at]

\* ClassificationResponse(...): the uuid validator as above, and the model
\* validator validate_unknown_has_low_confidence, which sets the confidence
\* of an Unknown record to low instead of rejecting it
ClassificationResponse(uuid, name, type, description, sources, confidence, cached, searched_at) ==
    LET v == validate_and_normalize_uuid(uuid)
    IN  [ok |-> v.ok, uuid |-> v.val, name |-> name, type |-> type,
         description |-> description, sources |-> sources,
         confidence |-> IF type = UNKNOWN /\ confidence # LOW THEN LOW ELSE confidence,
         cached |-> cached, searched_at |-> searched_at]

\* ----------------------------------------------------------- classifier

Letters == UpperLetters \cup LowerLetters

\* the characters of the model's alphabet that "\s" matches
SpaceChars == {" ", "\t", "\n", "\r"}

\* the last position of the maximal run of characters of cls that starts at
\* position i (t[i] is in cls)
RECURSIVE RunEnd(_, _, _)
RunEnd(t, i, cls) ==
    IF i + 1 <= Len(t) /\ t[i + 1] \in cls THEN RunEnd(t, i + 1, cls) ELSE i

\* t[i:].lower().startswith(kw), for kw in lower case
StartsWithAt(t, i, kw) ==
    /\ i + Len(kw) - 1 <= Len(t)
    /\ \A k \in 1..Len(kw) : LowerChar(t[i + k - 1]) = kw[k]

\* "[A-Z][a-z]+" at position i under re.IGNORECASE, where the pattern goes
\* on with "\s" or ends: two letters or more, to the end of the run of
\* letters; the last position, or 0 when there is no match
WordEnd(t, i) ==
    IF i + 1 <= Len(t) /\ t[i] \in Letters /\ t[i + 1] \in Letters
    THEN RunEnd(t, i, Letters) ELSE 0

\* "[A-Z][a-z]+(?:\s+[A-Z][a-z]+)*" at position i: the positions at which
\* the group can end, shortest first
RECURSIVE ChainEnds(_, _)
ChainEnds(t, i) ==
    LET e == WordEnd(t, i)
    IN  IF e = 0 THEN <<>>
        ELSE IF e + 1 <= Len(t) /\ t[e + 1] \in SpaceChars
        THEN <<e>> \o ChainEnds(t, RunEnd(t, e + 1, SpaceChars) + 1)
        ELSE <<e>>

\* "(?:Service|Profile)" at position j: the last position, or 0
ServiceProfileEnd(t, j) ==
    IF StartsWithAt(t, j, <<"s","e","r","v","i","c","e">>) \/ StartsWithAt(t, j, <<"p","r","o","f","i","l","e">>)
    THEN j + 6 ELSE 0

\* "(?:UUID|0x[0-9A-Fa-f]+)" at position j: the last position, or 0
UuidOrHexEnd(t, j) ==
    IF StartsWithAt(t, j, <<"u","u","i","d">>) THEN j + 3
    ELSE IF StartsWithAt(t, j, <<"0","x">>) /\ j + 2 <= Len(t) /\ t[j + 2] \in HexChars
    THEN RunEnd(t, j + 2, HexChars)
    ELSE 0

\* "\s+" and then the keyword of pattern p (1 or 4) after a group that ends
\* at position e: the last position of the match, or 0
KeywordAfter(p, t, e) ==
    IF e + 1 <= Len(t) /\ t[e + 1] \in SpaceChars
    THEN LET j == RunEnd(t, e + 1, SpaceChars) + 1
         IN  IF p = 1 THEN ServiceProfileEnd(t, j) ELSE UuidOrHexEnd(t, j)
    ELSE 0

NoMatch == [end |-> 0, group |-> <<>>]

\* patterns 1 and 4 at position i: the greedy group backs off word by word
\* until the keyword follows
GroupThenKeywordAt(p, t, i) ==
    LET ends == ChainEnds(t, i)
        good == {k \in 1..Len(ends) : KeywordAfter(p, t, ends[k]) # 0}
    IN  IF good = {} THEN NoMatch
        ELSE LET k == CHOOSE x \in good : \A y \in good : y <= x
             IN  [end |-> KeywordAfter(p, t, ends[k]), group |-> SubSeq(t, i, ends[k])]

\* pattern 2 at position i: "(?:service|profile|name)[:\s]+" and the group
KeywordThenGroupAt(t, i) ==
    LET n == IF StartsWithAt(t, i, <<"s","e","r","v","i","c","e">>) \/ StartsWithAt(t, i, <<"p","r","o","f","i","l","e">>) THEN 7
             ELSE IF StartsWithAt(t, i, <<"n","a","m","e">>) THEN 4 ELSE 0
        sep == SpaceChars \cup {":"}
    IN  IF n = 0 \/ i + n > Len(t) \/ t[i + n] \notin sep THEN NoMatch
        ELSE LET j == RunEnd(t, i + n, sep) + 1
                 ends == ChainEnds(t, j)
             IN  IF ends = <<>> THEN NoMatch
                 ELSE [end |-> ends[Len(ends)], group |-> SubSeq(t, j, ends[Len(ends)])]

\* pattern 3 at position i: "(Nordic\s+UART\s+Service|NUS)"
NordicUartAt(t, i) ==
    LET a == i + 6
        b == IF StartsWithAt(t, i, <<"n","o","r","d","i","c">>) /\ a <= Len(t) /\ t[a] \in SpaceChars
             THEN RunEnd(t, a, SpaceChars) + 1 ELSE 0
        c == b + 4
        d == IF b # 0 /\ StartsWithAt(t, b, <<"u","a","r","t">>) /\ c <= Len(t) /\ t[c] \in SpaceChars
             THEN RunEnd(t, c, SpaceChars) + 1 ELSE 0
    IN  IF d # 0 /\ StartsWithAt(t, d, <<"s","e","r","v","i","c","e">>)
        THEN [end |-> d + 6, group |-> SubSeq(t, i, d + 6)]
        ELSE IF StartsWithAt(t, i, <<"n","u","s">>)
        THEN [end |-> i + 2, group |-> SubSeq(t, i, i + 2)]
        ELSE NoMatch

\* NAME_EXTRACTION_PATTERNS[p - 1] tried at position i of t
PatternAt(p, t, i) ==
    CASE p = 1 -> GroupThenKeywordAt(1, t, i)
      [] p = 2 -> KeywordThenGroupAt(t, i)
      [] p = 3 -> NordicUartAt(t, i)
      [] p = 4 -> GroupThenKeywordAt(4, t, i)

NumPatterns == 4

\* pattern.findall(t) from position i on: the captured groups of the
\* leftmost non-overlapping matches, in order
RECURSIVE FindAll(_, _, _)
FindAll(p, t, i) ==
    IF i > Len(t) THEN <<>>
    ELSE LET m == PatternAt(p, t, i)
         IN  IF m.end = 0 THEN FindAll(p, t, i + 1)
             ELSE <<m.group>> \o FindAll(p, t, m.end + 1)

\* the concatenation of the sequences of a sequence of sequences
RECURSIVE Flatten(_)
Flatten(ss) == IF ss = <<>> THEN <<>> ELSE Head(ss) \o Flatten(Tail(ss))

\* " ".join(parts)
RECURSIVE JoinSpace(_)
JoinSpace(parts) ==
    IF parts = <<>> THEN <<>>
    ELSE IF Len(parts) = 1 THEN parts[1]
    ELSE parts[1] \o <<" ">> \o JoinSpace(Tail(parts))

\* str.strip()
RECURSIVE Strip(_)
Strip(t) ==
    IF t = <<>> THEN t
    ELSE IF t[1] \in SpaceChars THEN Strip(Tail(t))
    ELSE IF t[Len(t)] \in SpaceChars THEN Strip(SubSeq(t, 1, Len(t) - 1))
    ELSE t

\* t.lower().endswith(suffix.lower())
EndsWithLower(t, suffix) ==
    /\ Len(t) >= Len(suffix)
    /\ Lower(SubSeq(t, Len(t) - Len(suffix) + 1, Len(t))) = Lower(suffix)

\* t.split(separator)[0]
RECURSIVE BeforeFirst(_, _, _)
BeforeFirst(t, separator, i) ==
    IF i + Len(separator) - 1 > Len(t) THEN t
    ELSE IF SubSeq(t, i, i + Len(separator) - 1) = separator THEN SubSeq(t, 1, i - 1)
    ELSE BeforeFirst(t, separator, i + 1)

\* ClassifierService._combine_result_text
_combine_result_text(search_results) ==
    JoinSpace(Flatten([k \in 1..Len(search_results) |->
        IF search_results[k].snippet # <<>>
        THEN <<search_results[k].title, search_results[k].snippet>>
        ELSE <<search_results[k].title>>]))

\* the generic BLE terms of _detect_type
ble_indicators ==
    << <<"b","l","u","e","t","o","o","t","h">>, <<"b","l","e">>, <<"g","a","t","t">>, <<"s","e","r","v","i","c","e">>, <<"c","h","a","r","a","c","t","e","r","i","s","t","i","c">> >>

\* a _detect_type that looks at the form of the identifier first
_detect_type_form_first(uuid, search_results) ==
    LET all_text == Lower(_combine_result_text(search_results))
    IN  IF is_bluetooth_sig_uuid(uuid) THEN STANDARD_BLE_SERVICE
        ELSE IF AnyIn(IBEACON_INDICATORS, all_text) THEN APPLE_IBEACON
        ELSE IF AnyIn(EDDYSTONE_INDICATORS, all_text) THEN GOOGLE_EDDYSTONE
        ELSE IF AnyIn(VENDOR_INDICATORS, all_text) THEN VENDOR_SPECIFIC
        ELSE IF AnyIn(ble_indicators, all_text) THEN CUSTOM_SERVICE
        ELSE UNKNOWN

\* ClassifierService._detect_type: the first rule that matches decides
_detect_type(uuid, search_results) ==
    LET all_text == Lower(_combine_result_text(search_results))
    IN  IF AnyIn(IBEACON_INDICATORS, all_text) THEN APPLE_IBEACON
        ELSE IF AnyIn(EDDYSTONE_INDICATORS, all_text) THEN GOOGLE_EDDYSTONE
        ELSE IF is_bluetooth_sig_uuid(uuid) THEN STANDARD_BLE_SERVICE
        ELSE IF AnyIn(VENDOR_INDICATORS, all_text) THEN VENDOR_SPECIFIC
        ELSE IF AnyIn(ble_indicators, all_text) THEN CUSTOM_SERVICE
        ELSE UNKNOWN

suffixes_to_remove ==
    << <<" ","-"," ","B","l","u","e","t","o","o","t","h"," ","S","I","G">>, <<" ","-"," ","B","l","u","e","t","o","o","t","h">>, <<" ","|"," ","B","l","u","e","t","o","o","t","h">>, <<" ","-"," ","N","o","r","d","i","c">>,
       <<" ","-"," ","A","p","p","l","e">>, <<" ","S","e","r","v","i","c","e"," ","U","U","I","D">>, <<" ","U","U","I","D">> >>

separators == << <<" ","-"," ">>, <<" ","|"," ">>, <<" ",":"," ">> >>

\* the loop over suffixes_to_remove, from suffix k on
RECURSIVE RemoveSuffixes(_, _)
RemoveSuffixes(result, k) ==
    IF k > Len(suffixes_to_remove) THEN result
    ELSE IF EndsWithLower(result, suffixes_to_remove[k])
    THEN RemoveSuffixes(SubSeq(result, 1, Len(result) - Len(suffixes_to_remove[k])), k + 1)
    ELSE RemoveSuffixes(result, k + 1)

\* the loop over the separators, from separator k on
RECURSIVE CutAtSeparators(_, _)
CutAtSeparators(result, k) ==
    IF k > Len(separators) THEN result
    ELSE CutAtSeparators(BeforeFirst(result, separators[k], 1), k + 1)

\* ClassifierService._clean_title_for_name
_clean_title_for_name(title) ==
    Strip(CutAtSeparators(RemoveSuffixes(title, 1), 1))

\* the generic terms _extract_name does not count
stop_words == { <<"t","h","e">>, <<"a","n","d">>, <<"f","o","r">>, <<"b","l","e">>, <<"u","u","i","d">> }

\* the shortest name _extract_name counts
MinNameLength == 3

\* the matches of every pattern on the title and the snippet of every
\* result, in the order the loops of _extract_name visit them
potential_names(search_results) ==
    Flatten(Flatten([k \in 1..Len(search_results) |->
        Flatten([x \in 1..2 |->
            LET text == IF x = 1 THEN search_results[k].title
                        ELSE search_results[k].snippet
            IN  [p \in 1..NumPatterns |-> FindAll(p, text, 1)]])]))

\* the counting loop of _extract_name: the names that are neither too short
\* nor stop words, stripped, in the order they are counted
normalized_names(potential) ==
    LET kept == SelectSeq(potential, LAMBDA n :
                    ~(Len(n) < MinNameLength \/ Lower(n) \in stop_words))
    IN  [k \in 1..Len(kept) |-> Strip(kept[k])]

\* Counter.most_common(1) of the counted names: the highest count, the first
\* inserted of those
most_common(counted) ==
    LET Count(x) == Cardinality({k \in 1..Len(counted) : counted[k] = x})
    IN  counted[CHOOSE k \in 1..Len(counted) :
                    /\ \A j \in 1..Len(counted) : Count(counted[j]) <= Count(counted[k])
                    /\ \A j \in 1..(k - 1) : Count(counted[j]) < Count(counted[k])]

\* the part of _extract_name after the patterns have been tried
name_from(search_results, potential) ==
    IF search_results = <<>> THEN <<"U","n","k","n","o","w","n">>
    ELSE IF potential = <<>>
    THEN LET name == _clean_title_for_name(search_results[1].title)
         IN  IF name # <<>> /\ Lower(name) # <<"u","n","k","n","o","w","n">>
             THEN name ELSE <<"U","n","k","n","o","w","n">>
    ELSE IF normalized_names(potential) = <<>> THEN <<"U","n","k","n","o","w","n">>
    ELSE most_common(normalized_names(potential))

\* ClassifierService._extract_name
_extract_name(search_results) ==
    name_from(search_results, potential_names(search_results))

\* the template of _generate_description for each classification type
base_description(name, classification_type) ==
    CASE classification_type = STANDARD_BLE_SERVICE ->
             <<"B","l","u","e","t","o","o","t","h"," ","S","I","G"," ","s","t","a","n","d","a","r","d","i","z","e","d"," ">> \o name \o <<" ","s","e","r","v","i","c","e">>
      [] classification_type = VENDOR_SPECIFIC ->
             <<"V","e","n","d","o","r","-","s","p","e","c","i","f","i","c"," ">> \o name \o <<" ","s","e","r","v","i","c","e">>
      [] classification_type = APPLE_IBEACON -> <<"A","p","p","l","e"," ","i","B","e","a","c","o","n"," ">> \o name
      [] classification_type = GOOGLE_EDDYSTONE -> <<"G","o","o","g","l","e"," ","E","d","d","y","s","t","o","n","e"," ">> \o name
      [] classification_type = CUSTOM_SERVICE ->
             <<"C","u","s","t","o","m"," ","B","L","E"," ">> \o name \o <<" ","s","e","r","v","i","c","e">>
      [] classification_type = UNKNOWN -> <<"U","n","a","b","l","e"," ","t","o"," ","i","d","e","n","t","i","f","y"," ","t","h","i","s"," ","U","U","I","D">>
      [] OTHER -> name \o <<" ","s","e","r","v","i","c","e">>

\* a snippet is appended to the description only when it is longer than this
MinSnippetLength == 20

\* a longer snippet is cut to SnippetKeep characters and "..."
MaxSnippetLength == 200

SnippetKeep == 197

\* the loop of _generate_description that picks the snippet: the snippet of
\* the first result that has one and an authoritative URL, else the first
\* non-empty snippet, else <<>> (None)
best_snippet(search_results) ==
    LET with == {k \in 1..Len(search_results) : search_results[k].snippet # <<>>}
        auth == {k \in with : is_authoritative_source(search_results[k].url)}
        Min(S) == CHOOSE x \in S : \A y \in S : x <= y
    IN  IF auth # {} THEN search_results[Min(auth)].snippet
        ELSE IF with # {} THEN search_results[Min(with)].snippet
        ELSE <<>>

\* ClassifierService._generate_description
_generate_description(name, classification_type, search_results) ==
    LET base == base_description(name, classification_type)
        best == best_snippet(search_results)
        cut == IF Len(best) > MaxSnippetLength
               THEN Slice(best, 0, SnippetKeep) \o <<".",".",".">> ELSE best
    IN  IF search_results # <<>> /\ best # <<>> /\ Len(best) > MinSnippetLength
        THEN base \o <<"."," ">> \o cut
        ELSE base

\* the thresholds of _calculate_confidence
HighMentions == 3
MediumMentions == 2
MinAuthoritative == 1

\* a _calculate_confidence for which mentions or an authoritative source
\* alone make the confidence high
_calculate_confidence_either(search_results, extracted_name) ==
    LET name_lower == Lower(extracted_name)
        name_mentions == Cardinality({k \in 1..Len(search_results) :
            Contains(Lower(search_results[k].title \o <<" ">> \o search_results[k].snippet),
                     name_lower)})
        authoritative_count == Cardinality({k \in 1..Len(search_results) :
            is_authoritative_source(search_results[k].url)})
    IN  IF search_results = <<>> \/ extracted_name = <<"U","n","k","n","o","w","n">> THEN LOW
        ELSE IF name_mentions >= HighMentions \/ authoritative_count >= MinAuthoritative
        THEN HIGH
        ELSE IF name_mentions >= MediumMentions
        THEN MEDIUM
        ELSE LOW

\* ClassifierService._calculate_confidence
_calculate_confidence(search_results, extracted_name) ==
    LET name_lower == Lower(extracted_name)
        name_mentions == Cardinality({k \in 1..Len(search_results) :
            Contains(Lower(search_results[k].title \o <<" ">> \o search_results[k].snippet),
                     name_lower)})
        authoritative_count == Cardinality({k \in 1..Len(search_results) :
            is_authoritative_source(search_results[k].url)})
    IN  IF search_results = <<>> \/ extracted_name = <<"U","n","k","n","o","w","n">> THEN LOW
        ELSE IF name_mentions >= HighMentions /\ authoritative_count >= MinAuthoritative
        THEN HIGH
        ELSE IF name_mentions >= MediumMentions \/ authoritative_count >= MinAuthoritative
        THEN MEDIUM
        ELSE LOW

\* the number of results _build_sources looks at
MaxSources == 5

\* a _build_sources that skips the results it cannot use before it takes
\* the first MaxSources
_build_sources_skip_then_cap(search_results) ==
    LET made == [k \in 1..Len(search_results) |->
                    SourceInfo(search_results[k].title, search_results[k].url,
                               IF search_results[k].snippet # <<>> THEN search_results[k].snippet
                               ELSE <<"N","o"," ","s","n","i","p","p","e","t"," ","a","v","a","i","l","a","b","l","e">>)]
        kept == Slice(SelectSeq(made, LAMBDA s : s.ok), 0, MaxSources)
    IN  [k \in 1..Len(kept) |->
            [title |-> kept[k].title, url |-> kept[k].url, snippet |-> kept[k].snippet]]

\* a _build_sources that passes the snippet as it is
_build_sources_snippet_as_is(search_results) ==
    LET top == Slice(search_results, 0, MaxSources)
        made == [k \in 1..Len(top) |->
                    SourceInfo(top[k].title, top[k].url, top[k].snippet)]
        kept == SelectSeq(made, LAMBDA s : s.ok)
    IN  [k \in 1..Len(kept) |->
            [title |-> kept[k].title, url |-> kept[k].url, snippet |-> kept[k].snippet]]

\* ClassifierService._build_sources: the first MaxSources results, each
\* made a SourceInfo, those that fail validation skipped
_build_sources(search_results) ==
    LET top == Slice(search_results, 0, MaxSources)
        made == [k \in 1..Len(top) |->
                    SourceInfo(top[k].title, top[k].url,
                               IF top[k].snippet # <<>> THEN top[k].snippet
                               ELSE <<"N","o"," ","s","n","i","p","p","e","t"," ","a","v","a","i","l","a","b","l","e">>)]
        kept == SelectSeq(made, LAMBDA s : s.ok)
    IN  [k \in 1..Len(kept) |->
            [title |-> kept[k].title, url |-> kept[k].url, snippet |-> kept[k].snippet]]

\* ClassifierService._create_known_service_classification
_create_known_service_classification(uuid, known_service, search_results, now) ==
    ClassificationCreate(uuid, known_service.name, STANDARD_BLE_SERVICE,
                         known_service.description, _build_sources(search_results),
                         HIGH, now)

\* ClassifierService._create_unknown_classification
_create_unknown_classification(uuid, now) ==
    ClassificationCreate(uuid, <<"U","n","k","n","o","w","n">>, UNKNOWN,
        <<"U","n","a","b","l","e"," ","t","o"," ","i","d","e","n","t","i","f","y"," ","t","h","i","s"," ","U","U","I","D","."," ","N","o"," ","i","n","f","o","r","m","a","t","i","o","n"," ","f","o","u","n","d"," ","i","n"," ","s","e","a","r","c","h"," ","r","e","s","u","l","t","s",".">>,
        <<>>, LOW, now)

\* the last steps of classify, once the type and the name are known: the
\* description, the confidence, the sources and the draft
classify_from_results(uuid, search_results, classification_type, name, now) ==
    ClassificationCreate(uuid, name, classification_type,
                         _generate_description(name, classification_type, search_results),
                         _build_sources(search_results),
                         _calculate_confidence(search_results, name), now)

\* a classify that looks at the results before the knowledge base
classify_results_first(uuid, search_results, now) ==
    IF search_results # <<>>
    THEN classify_from_results(uuid, search_results, _detect_type(uuid, search_results),
                               _extract_name(search_results), now)
    ELSE IF get_known_service(uuid).found
    THEN _create_known_service_classification(uuid, get_known_service(uuid).service,
                                              search_results, now)
    ELSE _create_unknown_classification(uuid, now)

\* a classify without the shortcut for an empty result list
classify_no_empty_shortcut(uuid, search_results, now) ==
    IF get_known_service(uuid).found
    THEN _create_known_service_classification(uuid, get_known_service(uuid).service,
                                              search_results, now)
    ELSE classify_from_results(uuid, search_results, _detect_type(uuid, search_results),
                               _extract_name(search_results), now)

\* a classify that raises when one of the first MaxSources results cannot
\* be made a source
classify_sources_required(uuid, search_results, now) ==
    IF \E k \in 1..Len(Slice(search_results, 0, MaxSources)) :
          ~HttpUrl(search_results[k].url).ok
    THEN [ok |-> FALSE]
    ELSE IF get_known_service(uuid).found
    THEN _create_known_service_classification(uuid, get_known_service(uuid).service,
                                              search_results, now)
    ELSE IF search_results = <<>>
    THEN _create_unknown_classification(uuid, now)
    ELSE classify_from_results(uuid, search_results, _detect_type(uuid, search_results),
                               _extract_name(search_results), now)

\* ClassifierService.classify, called at time now
classify(uuid, search_results, now) ==
    IF get_known_service(uuid).found
    THEN _create_known_service_classification(uuid, get_known_service(uuid).service,
                                              search_results, now)
    ELSE IF search_results = <<>>
    THEN _create_unknown_classification(uuid, now)
    ELSE classify_from_results(uuid, search_results, _detect_type(uuid, search_results),
                               _extract_name(search_results), now)

\* ------------------------------------------------------- search results

\* result lists the search provider may return: the three results the
\* integration tests use, and two results without any BLE term, the second
\* with an empty snippet and a URL that is no valid source URL
ResultsHeartRate ==
    <<
      [title |-> <<"H","e","a","r","t"," ","R","a","t","e"," ","S","e","r","v","i","c","e"," ","-"," ","B","l","u","e","t","o","o","t","h"," ","S","I","G">>,
       url |-> <<"h","t","t","p","s",":","/","/","w","w","w",".","b","l","u","e","t","o","o","t","h",".","c","o","m","/","s","p","e","c","i","f","i","c","a","t","i","o","n","s","/","g","a","t","t","/","s","e","r","v","i","c","e","s","/">>,
       snippet |-> <<"T","h","e"," ","H","e","a","r","t"," ","R","a","t","e"," ","S","e","r","v","i","c","e"," ","e","x","p","o","s","e","s"," ","h","e","a","r","t"," ","r","a","t","e"," ","d","a","t","a","."," ","U","U","I","D",":"," ","0","x","1","8","0","D">>,
       position |-> 1],
      [title |-> <<"B","L","E"," ","H","e","a","r","t"," ","R","a","t","e"," ","S","e","r","v","i","c","e"," ","T","u","t","o","r","i","a","l">>,
       url |-> <<"h","t","t","p","s",":","/","/","l","e","a","r","n",".","e","x","a","m","p","l","e",".","c","o","m","/","b","l","e","-","h","r","s">>,
       snippet |-> <<"T","h","e"," ","H","e","a","r","t"," ","R","a","t","e"," ","S","e","r","v","i","c","e"," ","(","0","x","1","8","0","D",")"," ","i","s"," ","a"," ","s","t","a","n","d","a","r","d","i","z","e","d"," ","B","L","E"," ","s","e","r","v","i","c","e",".">>,
       position |-> 2],
      [title |-> <<"B","l","u","e","t","o","o","t","h"," ","G","A","T","T"," ","S","e","r","v","i","c","e","s"," ","R","e","f","e","r","e","n","c","e">>,
       url |-> <<"h","t","t","p","s",":","/","/","d","e","v","e","l","o","p","e","r",".","b","l","u","e","t","o","o","t","h",".","o","r","g","/","g","a","t","t">>,
       snippet |-> <<"H","e","a","r","t"," ","R","a","t","e"," ","S","e","r","v","i","c","e"," ","U","U","I","D",":"," ","0","0","0","0","1","8","0","d","-","0","0","0","0","-","1","0","0","0","-","8","0","0","0","-","0","0","8","0","5","f","9","b","3","4","f","b">>,
       position |-> 3]
    >>

ResultsWidget ==
    <<
      [title |-> <<"A","c","m","e"," ","W","i","d","g","e","t"," ","P","r","o","f","i","l","e">>,
       url |-> <<"h","t","t","p","s",":","/","/","a","c","m","e",".","e","x","a","m","p","l","e",".","o","r","g">>,
       snippet |-> <<"A","c","m","e"," ","W","i","d","g","e","t"," ","P","r","o","f","i","l","e"," ","p","a","g","e">>,
       position |-> 1],
      [title |-> <<"A","b","o","u","t"," ","t","h","e"," ","A","c","m","e"," ","W","i","d","g","e","t">>,
       url |-> <<"f","t","p",":","/","/","f","i","l","e","s",".","e","x","a","m","p","l","e",".","o","r","g","/","w","i","d","g","e","t">>,
       snippet |-> <<>>,
       position |-> 2]
    >>

\* one result with a generic BLE term in its title and no snippet
ResultsAcme ==
    <<
      [title |-> <<"A","c","m","e"," ","B","L","E"," ","S","e","r","v","i","c","e">>,
       url |-> <<"h","t","t","p","s",":","/","/","a","c","m","e",".","e","x","a","m","p","l","e",".","o","r","g","/","b","l","e">>,
       snippet |-> <<>>,
       position |-> 1]
    >>

\* ---------------------------------------------------------------- state

\* bounds of the model: the sessions, the steps of the clock and the calls
\* a caller other than the handler makes in its session
NumSessions == 2
MaxTicks == 1
MaxDirectCalls == 2

\* Settings.cache_ttl_days
cache_ttl_days == 30

\* the widths of the columns uuid and name of uuid_classifications
UuidColumnLength == 36
NameColumnLength == 255

Sessions == 1..NumSessions

\* the raw identifiers a request may carry
RawInputs ==
    {UnknownUuid, RawUnknownUpperNoHyphens, RawHeartRateUpper, RawNotAUuid,
     RawTrailingNewline}

VARIABLES
    rows,             \* the table uuid_classifications, pending rows included
    now,              \* the clock, in days
    phase,            \* where each session's request stands
    uuid,             \* the handler's argument uuid
    normalized_uuid,  \* the handler's normalized_uuid
    search_results,   \* the handler's search_results
    classification,   \* the handler's classification (the draft)
    response,         \* the response of the request: status and body
    calls,            \* the calls made in the session, in order, with results
    before            \* the records earlier requests had answered when this began

vars == <<rows, now, phase, uuid, normalized_uuid, search_results,
          classification, response, calls, before>>

NoDraft == [ok |-> FALSE]
NoResponse == [status |-> 0]

\* ------------------------------------------------------------- database

\* what a statement of session s sees: the committed rows and the rows its
\* own transaction has flushed
Visible(s) == {r \in rows : r.committed \/ r.by = s}

\* select(UUIDClassification).where(UUIDClassification.uuid == u)
Select(s, u) == {r \in Visible(s) : r.uuid = u}

\* a database in which an INSERT never waits for another transaction
InsertNeverWaits(s, u) == FALSE

\* the INSERT of key u by session s waits while another transaction holds
\* an uncommitted row with that key
InsertWaits(s, u) == \E r \in rows : r.uuid = u /\ ~r.committed /\ r.by # s

\* UUIDClassification(...): the constructor normalizes the identifier again
UUIDClassification(s, u, data, sources_json) ==
    [uuid |-> models_normalize_uuid(u).val, name |-> data.name, type |-> data.type,
     description |-> data.description, sources |-> sources_json,
     confidence |-> data.confidence, searched_at |-> data.searched_at,
     by |-> s, committed |-> FALSE]

\* a table uuid_classifications whose column uuid is no unique key
FlushOutcome_NoUniqueKey(s, record) ==
    IF Len(record.uuid) > UuidColumnLength \/ Len(record.name) > NameColumnLength
    THEN "DataError"
    ELSE "ok"

\* session.add(record); session.flush(): the primary key rejects a second
\* row with the key (IntegrityError) and the columns reject a value that is
\* too long (a DBAPIError that is no IntegrityError)
FlushOutcome(s, record) ==
    IF Len(record.uuid) > UuidColumnLength \/ Len(record.name) > NameColumnLength
    THEN "DataError"
    ELSE IF Select(s, record.uuid) # {} THEN "IntegrityError"
    ELSE "ok"

\* session.rollback(): the rows the transaction of s has flushed are gone
Rollback(s) == {r \in rows : r.committed \/ r.by # s}

\* session.commit(): the rows the transaction of s has flushed are committed
Commit(s) == {IF r.by = s THEN [r EXCEPT !.committed = TRUE] ELSE r : r \in rows}

\* -------------------------------------------------------- cache service

\* CacheService._to_response
_to_response(record, cached) ==
    LET parsed == [k \in 1..Len(record.sources) |->
                      SourceInfo(record.sources[k].title, record.sources[k].url,
                                 record.sources[k].snippet)]
        sources == [k \in 1..Len(parsed) |->
                      [title |-> parsed[k].title, url |-> parsed[k].url,
                       snippet |-> parsed[k].snippet]]
        r == ClassificationResponse(record.uuid, record.name, record.type,
                                    record.description, sources, record.confidence,
                                    cached, record.searched_at)
    IN  [r EXCEPT !.ok = r.ok /\ \A k \in 1..Len(parsed) : parsed[k].ok]

\* [s.model_dump(mode="json") for s in data.sources]
sources_json(sources) ==
    [k \in 1..Len(sources) |->
        [title |-> sources[k].title, url |-> sources[k].url,
         snippet |-> sources[k].snippet]]

\* "return self._to_response(record, cached=True)": the response, or the
\* exception of its validation
Returned(r) == IF r.ok THEN [kind |-> "hit", response |-> r] ELSE [kind |-> "error"]

\* the end of save_classification's try block after the flush: the response
\* is returned, or its validation raises with the record flushed
Saved(table, r) ==
    IF r.ok THEN [kind |-> "saved", table |-> table, response |-> r]
    ELSE [kind |-> "error", table |-> table]

\* a get_classification that never finds a record
get_classification_miss(s, u) == [kind |-> "none"]

\* a get_classification that enforces Settings.cache_ttl_days: a record
\* searched more than cache_ttl_days ago is not found
get_classification_ttl(s, u) ==
    LET normalized == models_normalize_uuid(u)
        found == {r \in Select(s, normalized.val) : now - r.searched_at <= cache_ttl_days}
        record == CHOOSE r \in found : TRUE
    IN  IF ~normalized.ok THEN [kind |-> "none"]
        ELSE IF found = {} THEN [kind |-> "none"]
        ELSE Returned(_to_response(record, TRUE))

\* a get_classification that lets the ValueError of normalize_uuid through
get_classification_raises(s, u) ==
    LET normalized == models_normalize_uuid(u)
        found == Select(s, normalized.val)
        record == CHOOSE r \in found : TRUE
    IN  IF ~normalized.ok THEN [kind |-> "error"]
        ELSE IF found = {} THEN [kind |-> "none"]
        ELSE IF Cardinality(found) > 1 THEN [kind |-> "error"]
        ELSE Returned(_to_response(record, TRUE))

\* CacheService.get_classification in session s: kind is "none" (None),
\* "hit" (the response) or "error" (an exception)
get_classification(s, u) ==
    LET normalized == models_normalize_uuid(u)
        found == Select(s, normalized.val)
        record == CHOOSE r \in found : TRUE
    IN  IF ~normalized.ok THEN [kind |-> "none"]
        ELSE IF found = {} THEN [kind |-> "none"]
        ELSE IF Cardinality(found) > 1 THEN [kind |-> "error"]
        ELSE Returned(_to_response(record, TRUE))

\* an exists that looks the argument up as it was written
exists_as_written(s, u) ==
    LET normalized == models_normalize_uuid(u)
    IN  normalized.ok /\ Select(s, u) # {}

\* CacheService.exists in session s
exists(s, u) ==
    LET normalized == models_normalize_uuid(u)
    IN  normalized.ok /\ Select(s, normalized.val) # {}

\* a save_classification that writes over the record the identifier has
save_classification_upsert(s, data) ==
    LET normalized == models_normalize_uuid(data.uuid)
        record == UUIDClassification(s, normalized.val, data, sources_json(data.sources))
    IN  Saved({r \in rows : r.uuid # record.uuid} \cup {record},
              _to_response(record, FALSE))

\* a save_classification whose INSERT goes through before the key is found
\* taken, and which raises the ValueError without session.rollback()
save_classification_keeps_insert(s, data) ==
    LET normalized == models_normalize_uuid(data.uuid)
        record == UUIDClassification(s, normalized.val, data, sources_json(data.sources))
        outcome == FlushOutcome(s, record)
    IN  IF ~normalized.ok THEN [kind |-> "error", table |-> rows]
        ELSE IF outcome = "IntegrityError"
        THEN [kind |-> "duplicate", table |-> rows \cup {record}]
        ELSE IF outcome = "DataError" THEN [kind |-> "error", table |-> rows]
        ELSE Saved(rows \cup {record}, _to_response(record, FALSE))

\* CacheService.save_classification in session s, once its INSERT does not
\* wait: kind is "saved" (the response, with the table after the flush),
\* "duplicate" (the ValueError, after session.rollback()) or "error" (any
\* other exception, the transaction left as it is)
save_classification(s, data) ==
    LET normalized == models_normalize_uuid(data.uuid)
        record == UUIDClassification(s, normalized.val, data, sources_json(data.sources))
        outcome == FlushOutcome(s, record)
    IN  IF ~normalized.ok THEN [kind |-> "error", table |-> rows]
        ELSE IF outcome = "IntegrityError" THEN [kind |-> "duplicate", table |-> Rollback(s)]
        ELSE IF outcome = "DataError" THEN [kind |-> "error", table |-> rows]
        ELSE Saved(rows \cup {record}, _to_response(record, FALSE))

\* ------------------------------------------------------- search service

\* SearchService.max_results
max_results == 10

\* SearchResult(...): title and url have min_length 1 and position is >= 1
SearchResult(title, url, snippet, position) ==
    [ok |-> Len(title) >= 1 /\ Len(url) >= 1 /\ position >= 1,
     title |-> title, url |-> url, snippet |-> snippet, position |-> position]

\* SearchService._parse_results: an item that fails validation is skipped
_parse_results(organic_results) ==
    LET made == [k \in 1..Len(organic_results) |->
                    SearchResult(organic_results[k].title, organic_results[k].link,
                                 organic_results[k].snippet, organic_results[k].position)]
        kept == SelectSeq(made, LAMBDA r : r.ok)
    IN  [k \in 1..Len(kept) |->
            [title |-> kept[k].title, url |-> kept[k].url,
             snippet |-> kept[k].snippet, position |-> kept[k].position]]

\* the organic results of a provider response that parse to the given results
Organic(results) ==
    [k \in 1..Len(results) |->
        [title |-> results[k].title, link |-> results[k].url,
         snippet |-> results[k].snippet, position |-> results[k].position]]

\* the longest list of numbered results
MaxResults == 7

DigitChar == <<"1","2","3","4","5","6","7","8","9">>

\* n results in rank order, "Result k" at "https://example.com/k"; the
\* results whose rank is in bad have a URL that is no valid source URL
RankedResults(n, bad) ==
    [k \in 1..n |->
        [title |-> <<"R","e","s","u","l","t"," ">> \o <<DigitChar[k]>>,
         url |-> (IF k \in bad THEN <<"f","t","p",":","/","/","e","x","a","m","p","l","e",".","c","o","m","/">> ELSE <<"h","t","t","p","s",":","/","/","e","x","a","m","p","l","e",".","c","o","m","/">>)
                    \o <<DigitChar[k]>>,
         snippet |-> <<"S","n","i","p","p","e","t"," ","f","o","r"," ","r","e","s","u","l","t"," ">> \o <<DigitChar[k]>>,
         position |-> k]]

\* what _execute_search and the parsing can do: a response is returned, or
\* SearchServiceError, TimeoutError or another exception is raised
ProviderOutcomes ==
    {[kind |-> "response", organic_results |-> Organic(ResultsAcme)],
     [kind |-> "SearchServiceError"], [kind |-> "TimeoutError"], [kind |-> "Exception"]}

\* a search_uuid that answers a provider failure with results
search_uuid_results_on_failure(api_key, provider) ==
    IF ~api_key THEN <<>>
    ELSE IF provider.kind = "response"
    THEN Slice(_parse_results(provider.organic_results), 0, max_results)
    ELSE ResultsAcme

\* a search_uuid that returns every result it parsed
search_uuid_uncapped(api_key, provider) ==
    IF ~api_key THEN <<>>
    ELSE IF provider.kind = "response"
    THEN _parse_results(provider.organic_results)
    ELSE <<>>

\* SearchService.search_uuid: without an API key no search is executed, and
\* every exception of the try block is answered with an empty list
search_uuid(api_key, provider) ==
    IF ~api_key THEN <<>>
    ELSE IF provider.kind = "response"
    THEN Slice(_parse_results(provider.organic_results), 0, max_results)
    ELSE <<>>

\* -------------------------------------------------------------- handler

Init ==
    /\ rows = {}
    /\ now = 0
    /\ phase = [s \in Sessions |-> "idle"]
    /\ uuid = [s \in Sessions |-> <<>>]
    /\ normalized_uuid = [s \in Sessions |-> <<>>]
    /\ search_results = [s \in Sessions |-> <<>>]
    /\ classification = [s \in Sessions |-> NoDraft]
    /\ response = [s \in Sessions |-> NoResponse]
    /\ calls = [s \in Sessions |-> <<>>]
    /\ before = [s \in Sessions |-> {}]

\* one entry of the log of calls: the operation, the identifier it was
\* passed and how it ended
Call(op, arg, result) == [op |-> op, arg |-> arg, result |-> result]

\* the operations session s has called, in order
Ops(s) == [k \in 1..Len(calls[s]) |-> calls[s][k].op]

\* sessions are opened in the order of their numbers
MayOpen(s) == phase[s] = "idle" /\ (IF s = 1 THEN TRUE ELSE phase[s - 1] # "idle")

\* the records requests have returned as freshly computed, for identifier u
Answered(u) ==
    {response[t].body : t \in {x \in Sessions :
        /\ phase[x] = "done"
        /\ response[x].status = 200
        /\ ~response[x].body.cached
        /\ response[x].body.uuid = u}}

\* classify_uuid_handler up to its first await: validate_uuid_format
\* answers a mismatch with HTTP 400
HandlerStart(s, raw) ==
    LET v == validate_uuid_format(raw)
    IN  /\ MayOpen(s)
        /\ uuid' = [uuid EXCEPT ![s] = raw]
        /\ normalized_uuid' = [normalized_uuid EXCEPT ![s] = v.val]
        /\ before' = [before EXCEPT ![s] = Answered(v.val)]
        /\ IF v.ok
           THEN /\ phase' = [phase EXCEPT ![s] = "cache_get"]
                /\ UNCHANGED response
           ELSE /\ phase' = [phase EXCEPT ![s] = "respond"]
                /\ response' = [response EXCEPT ![s] = [status |-> 400]]
        /\ UNCHANGED <<rows, now, search_results, classification, calls>>

\* a handler that classifies after a miss without searching
HandlerCacheGetSkipsSearch(s) ==
    /\ phase[s] = "cache_get"
    /\ \E cached_result \in {get_classification(s, normalized_uuid[s])} :
        /\ calls' = [calls EXCEPT ![s] =
                        Append(@, Call("get", normalized_uuid[s], cached_result.kind))]
        /\ IF cached_result.kind = "hit"
           THEN /\ response' = [response EXCEPT ![s] =
                                  [status |-> 200, body |-> cached_result.response]]
                /\ phase' = [phase EXCEPT ![s] = "respond"]
           ELSE /\ phase' = [phase EXCEPT ![s] = "classify"]
                /\ UNCHANGED response
        /\ UNCHANGED <<rows, now, uuid, normalized_uuid, search_results,
                       classification, before>>

\* step 1: cache_service.get_classification(normalized_uuid)
HandlerCacheGet(s) ==
    /\ phase[s] = "cache_get"
    /\ \E cached_result \in {get_classification(s, normalized_uuid[s])} :
        /\ calls' = [calls EXCEPT ![s] =
                        Append(@, Call("get", normalized_uuid[s], cached_result.kind))]
        /\ CASE cached_result.kind = "hit" ->
                  /\ response' = [response EXCEPT ![s] =
                                    [status |-> 200, body |-> cached_result.response]]
                  /\ phase' = [phase EXCEPT ![s] = "respond"]
             [] cached_result.kind = "none" ->
                  /\ phase' = [phase EXCEPT ![s] = "search"]
                  /\ UNCHANGED response
             [] cached_result.kind = "error" ->
                  /\ response' = [response EXCEPT ![s] = [status |-> 500]]
                  /\ phase' = [phase EXCEPT ![s] = "respond"]
        /\ UNCHANGED <<rows, now, uuid, normalized_uuid, search_results,
                       classification, before>>

\* step 2, with the SearchService: its failures come back as an empty list
HandlerSearch(s) ==
    /\ phase[s] = "search"
    /\ \E api_key \in BOOLEAN, provider \in ProviderOutcomes :
          /\ search_results' = [search_results EXCEPT ![s] = search_uuid(api_key, provider)]
          /\ calls' = [calls EXCEPT ![s] =
                          Append(@, Call("search", normalized_uuid[s],
                                         IF ~api_key THEN "no_api_key" ELSE provider.kind))]
    /\ phase' = [phase EXCEPT ![s] = "classify"]
    /\ UNCHANGED <<rows, now, uuid, normalized_uuid, classification, response, before>>

\* a handler that takes an exception of search_uuid for an empty result list
HandlerSearchRaisesAbsorbed(s) ==
    /\ phase[s] = "search"
    /\ calls' = [calls EXCEPT ![s] = Append(@, Call("search", normalized_uuid[s], "raised"))]
    /\ search_results' = [search_results EXCEPT ![s] = <<>>]
    /\ phase' = [phase EXCEPT ![s] = "classify"]
    /\ UNCHANGED <<rows, now, uuid, normalized_uuid, classification, response, before>>

\* step 2, with a search service whose search_uuid raises: the exception
\* reaches the handler's except clause, which answers HTTP 500
HandlerSearchRaises(s) ==
    /\ phase[s] = "search"
    /\ calls' = [calls EXCEPT ![s] = Append(@, Call("search", normalized_uuid[s], "raised"))]
    /\ response' = [response EXCEPT ![s] = [status |-> 500]]
    /\ phase' = [phase EXCEPT ![s] = "respond"]
    /\ UNCHANGED <<rows, now, uuid, normalized_uuid, search_results, classification,
                   before>>

\* step 3: classifier_service.classify(normalized_uuid, search_results)
HandlerClassify(s) ==
    /\ phase[s] = "classify"
    /\ \E draft \in {classify(normalized_uuid[s], search_results[s], now)} :
        /\ calls' = [calls EXCEPT ![s] =
                        Append(@, Call("classify", normalized_uuid[s],
                                       IF draft.ok THEN "draft" ELSE "raised"))]
        /\ IF draft.ok
           THEN /\ classification' = [classification EXCEPT ![s] = draft]
                /\ phase' = [phase EXCEPT ![s] = "save"]
                /\ UNCHANGED response
           ELSE /\ response' = [response EXCEPT ![s] = [status |-> 500]]
                /\ phase' = [phase EXCEPT ![s] = "respond"]
                /\ UNCHANGED classification
        /\ UNCHANGED <<rows, now, uuid, normalized_uuid, search_results, before>>

\* a handler that, when its save meets a duplicate, reads the cache again
\* and answers with the record it finds
HandlerSaveRereads(s) ==
    /\ phase[s] = "save"
    /\ ~InsertWaits(s, classification[s].uuid)
    /\ \E saved \in {save_classification(s, classification[s])} :
        LET winner == {r \in saved.table : r.committed /\ r.uuid = classification[s].uuid}
        IN
        /\ calls' = [calls EXCEPT ![s] =
                        Append(@, Call("save", classification[s].uuid, saved.kind))]
        /\ rows' = saved.table
        /\ response' = [response EXCEPT ![s] =
                          IF saved.kind = "saved"
                          THEN [status |-> 200, body |-> saved.response]
                          ELSE IF saved.kind = "duplicate" /\ winner # {}
                          THEN [status |-> 200,
                                body |-> _to_response(CHOOSE r \in winner : TRUE, TRUE)]
                          ELSE [status |-> 500]]
        /\ phase' = [phase EXCEPT ![s] = "respond"]
        /\ UNCHANGED <<now, uuid, normalized_uuid, search_results, classification,
                       before>>

\* step 4: cache_service.save_classification(classification); the
\* ValueError of a duplicate and every other exception reach the handler's
\* except clause, which answers HTTP 500
HandlerSave(s) ==
    /\ phase[s] = "save"
    /\ ~InsertWaits(s, classification[s].uuid)
    /\ \E saved \in {save_classification(s, classification[s])} :
        /\ calls' = [calls EXCEPT ![s] =
                        Append(@, Call("save", classification[s].uuid, saved.kind))]
        /\ rows' = saved.table
        /\ response' = [response EXCEPT ![s] =
                          IF saved.kind = "saved"
                          THEN [status |-> 200, body |-> saved.response]
                          ELSE [status |-> 500]]
        /\ phase' = [phase EXCEPT ![s] = "respond"]
        /\ UNCHANGED <<now, uuid, normalized_uuid, search_results, classification,
                       before>>

\* get_db_session around the request: commit when the handler returned,
\* rollback when it raised an HTTPException
HandlerFinish(s) ==
    /\ phase[s] = "respond"
    /\ rows' = IF response[s].status = 200 THEN Commit(s) ELSE Rollback(s)
    /\ phase' = [phase EXCEPT ![s] = "done"]
    /\ UNCHANGED <<now, uuid, normalized_uuid, search_results, classification,
                   response, calls, before>>

\* --------------------------------------- other callers of the cache service

\* the raw identifier a caller passes to get_classification and exists
DirectInputs == {RawUnknownUpperNoHyphens}

\* the drafts a caller passes to save_classification at time t: two
\* different drafts for one identifier, written in two forms
SaveInputs(t) ==
    {ClassificationCreate(UnknownUuid, <<"A","c","m","e"," ","W","i","d","g","e","t">>, CUSTOM_SERVICE, <<"C","u","s","t","o","m"," ","B","L","E"," ","A","c","m","e"," ","W","i","d","g","e","t"," ","s","e","r","v","i","c","e">>, <<>>, MEDIUM, t),
     ClassificationCreate(RawUnknownUpperNoHyphens, <<"U","p","d","a","t","e","d"," ","N","a","m","e">>, VENDOR_SPECIFIC, <<"U","p","d","a","t","e","d"," ","d","e","s","c","r","i","p","t","i","o","n">>, <<>>, MEDIUM, t)}

\* the caller may make another call in its session
MayCall(s) == (MayOpen(s) \/ phase[s] = "open") /\ Len(calls[s]) < MaxDirectCalls

\* a caller awaits CacheService.get_classification(raw) in its session
DirectGet(s, raw) ==
    /\ MayCall(s)
    /\ \E result \in {get_classification(s, raw)} :
        /\ calls' = [calls EXCEPT ![s] = Append(@, Call("get", raw, result.kind))]
        /\ response' = [response EXCEPT ![s] =
                          IF result.kind = "hit"
                          THEN [status |-> 0, body |-> result.response]
                          ELSE NoResponse]
        /\ phase' = [phase EXCEPT ![s] = "open"]
        /\ UNCHANGED <<rows, now, uuid, normalized_uuid, search_results,
                       classification, before>>

\* a caller awaits CacheService.exists(raw) in its session
DirectExists(s, raw) ==
    /\ MayCall(s)
    /\ calls' = [calls EXCEPT ![s] =
                    Append(@, Call("exists", raw, IF exists(s, raw) THEN "true" ELSE "false"))]
    /\ phase' = [phase EXCEPT ![s] = "open"]
    /\ UNCHANGED <<rows, now, uuid, normalized_uuid, search_results,
                   classification, response, before>>

\* a caller awaits CacheService.save_classification(data) in its session;
\* it goes on after the ValueError of a duplicate, and any other exception
\* ends its session: get_db_session rolls back
DirectSave(s, data) ==
    /\ MayCall(s)
    /\ data.ok
    /\ ~InsertWaits(s, data.uuid)
    /\ \E saved \in {save_classification(s, data)} :
        /\ calls' = [calls EXCEPT ![s] = Append(@, Call("save", data.uuid, saved.kind))]
        /\ classification' = [classification EXCEPT ![s] = data]
        /\ response' = [response EXCEPT ![s] =
                          IF saved.kind = "saved"
                          THEN [status |-> 0, body |-> saved.response]
                          ELSE NoResponse]
        /\ IF saved.kind = "error"
           THEN /\ rows' = Rollback(s)
                /\ phase' = [phase EXCEPT ![s] = "done"]
           ELSE /\ rows' = saved.table
                /\ phase' = [phase EXCEPT ![s] = "open"]
        /\ UNCHANGED <<now, uuid, normalized_uuid, search_results, before>>

\* the caller leaves get_db_session without an exception: commit
DirectClose(s) ==
    /\ phase[s] = "open"
    /\ rows' = Commit(s)
    /\ phase' = [phase EXCEPT ![s] = "done"]
    /\ UNCHANGED <<now, uuid, normalized_uuid, search_results, classification,
                   response, calls, before>>

\* time passes: more than the cache TTL at once
Tick ==
    /\ now < MaxTicks * (cache_ttl_days + 1)
    /\ now' = now + cache_ttl_days + 1
    /\ UNCHANGED <<rows, phase, uuid, normalized_uuid, search_results,
                   classification, response, calls, before>>

Next ==
    \/ \E s \in Sessions, raw \in RawInputs : HandlerStart(s, raw)
    \/ \E s \in Sessions : HandlerCacheGet(s)
    \/ \E s \in Sessions : HandlerSearch(s)
    \/ \E s \in Sessions : HandlerSearchRaises(s)
    \/ \E s \in Sessions : HandlerClassify(s)
    \/ \E s \in Sessions : HandlerSave(s)
    \/ \E s \in Sessions : HandlerFinish(s)
    \/ \E s \in Sessions, raw \in DirectInputs : DirectGet(s, raw)
    \/ \E s \in Sessions, raw \in DirectInputs : DirectExists(s, raw)
    \/ \E s \in Sessions : MayCall(s) /\ \E data \in SaveInputs(now) : DirectSave(s, data)
    \/ \E s \in Sessions : DirectClose(s)
    \/ Tick

Spec == Init /\ [][Next]_vars

\* ------------------------------------------------------------ properties

\* session s serves a request of classify_uuid_handler
IsHandler(s) == uuid[s] # <<>>

\* the committed records of identifier u
Committed(u) == {r \in rows : r.committed /\ r.uuid = u}

\* u is in canonical form: lower-case hexadecimal digits in groups of 8, 4,
\* 4, 4 and 12 with a hyphen between them
IsCanonical(u) ==
    /\ Len(u) = 36
    /\ \A i \in 1..36 :
          IF i \in {9, 14, 19, 24} THEN u[i] = "-"
          ELSE u[i] \in Digits \cup {"a", "b", "c", "d", "e", "f"}

\* the response body carries the fields of the stored record r
SameRecord(body, r) ==
    /\ body.uuid = r.uuid
    /\ body.name = r.name
    /\ body.type = r.type
    /\ body.description = r.description
    /\ body.sources = r.sources
    /\ body.confidence = (IF r.type = UNKNOWN THEN LOW ELSE r.confidence)
    /\ body.searched_at = r.searched_at

\* two response bodies with the same name, type, description, confidence
\* and sources
SameAnswer(a, b) ==
    /\ a.name = b.name
    /\ a.type = b.type
    /\ a.description = b.description
    /\ a.confidence = b.confidence
    /\ a.sources = b.sources

\* the order of the handler's calls
HandlerOrder == <<"get", "search", "classify", "save">>

\* C1: on a cache hit the handler returns at once. When the handler reads
\* the cache for an identifier that has a committed record, it answers 200
\* with the fields of that record and cached = TRUE, the read is its only
\* call (no search, no classify, no save), and neither the read nor the end
\* of the request changes the table.
C1_CacheHitReturnsAtOnce ==
    [][\A s \in Sessions :
          /\ (/\ IsHandler(s)
              /\ phase[s] = "cache_get"
              /\ phase'[s] # "cache_get"
              /\ Committed(normalized_uuid[s]) # {})
             => /\ phase'[s] = "respond"
                /\ response'[s].status = 200
                /\ response'[s].body.cached
                /\ \E r \in Committed(normalized_uuid[s]) : SameRecord(response'[s].body, r)
                /\ calls'[s] = <<Call("get", normalized_uuid[s], "hit")>>
                /\ rows' = rows
          /\ (/\ IsHandler(s)
              /\ phase[s] = "respond"
              /\ phase'[s] = "done"
              /\ response[s].status = 200
              /\ response[s].body.cached)
             => /\ Ops(s) = <<"get">>
                /\ classification[s] = NoDraft
                /\ response'[s] = response[s]
                /\ rows' = rows]_vars

\* a request in another form than the canonical one has been answered from
\* the cache
C1_Witness ==
    \E s \in Sessions :
        /\ IsHandler(s)
        /\ phase[s] = "done"
        /\ uuid[s] # normalized_uuid[s]
        /\ response[s].status = 200
        /\ response[s].body.cached
        /\ Committed(normalized_uuid[s]) # {}

\* C2: on a cache miss the handler calls get, search, classify and save in
\* this order, each at most once and each with the canonical identifier; a
\* request that answers a freshly computed record has made all four calls,
\* and a request whose save succeeded answers 200 with cached = FALSE and
\* the fields of the draft it saved.
C2_MissStepsInOrder ==
    \A s \in Sessions :
        IsHandler(s) =>
            /\ Len(calls[s]) <= Len(HandlerOrder)
            /\ \A k \in 1..Len(calls[s]) :
                  /\ calls[s][k].op = HandlerOrder[k]
                  /\ calls[s][k].arg = normalized_uuid[s]
            /\ (Len(calls[s]) >= 2 => calls[s][1].result = "none")
            /\ (phase[s] \in {"respond", "done"} /\ response[s].status = 200
                   /\ ~response[s].body.cached)
               => Ops(s) = HandlerOrder
            /\ (Len(calls[s]) = 4 /\ calls[s][4].result = "saved")
               => /\ phase[s] \in {"respond", "done"}
                  /\ response[s].status = 200
                  /\ ~response[s].body.cached
                  /\ response[s].body.uuid = normalized_uuid[s]
                  /\ response[s].body.name = classification[s].name
                  /\ response[s].body.type = classification[s].type
                  /\ response[s].body.description = classification[s].description
                  /\ response[s].body.sources = classification[s].sources
                  /\ \E r \in rows : r.by = s /\ SameRecord(response[s].body, r)

\* a request has missed the cache, searched with results, classified, saved
\* and answered
C2_Witness ==
    \E s \in Sessions :
        /\ IsHandler(s)
        /\ phase[s] = "done"
        /\ response[s].status = 200
        /\ ~response[s].body.cached
        /\ calls[s][2].result = "response"
        /\ search_results[s] # <<>>

\* C3: once a request has answered a freshly computed record for an
\* identifier, a later request for that identifier in any form does not
\* search: it answers 200 with cached = TRUE and the same name, type,
\* description, confidence and sources, its only call being the cache read;
\* and the record of every answered request stays committed, whatever the
\* time that has passed.
C3_CachePermanent ==
    /\ \A s \in Sessions :
          (IsHandler(s) /\ before[s] # {}) =>
              /\ phase[s] \in {"cache_get", "respond", "done"}
              /\ phase[s] # "cache_get" =>
                    /\ response[s].status = 200
                    /\ response[s].body.cached
                    /\ \A b \in before[s] : SameAnswer(response[s].body, b)
                    /\ Ops(s) = <<"get">>
    /\ \A s \in Sessions :
          (IsHandler(s) /\ phase[s] = "done" /\ response[s].status = 200) =>
              \E r \in Committed(response[s].body.uuid) : SameRecord(response[s].body, r)

\* a request in another form, begun after the first was answered and more
\* than cache_ttl_days after the record was computed, has been answered
C3_Witness ==
    \E s, t \in Sessions :
        /\ IsHandler(s) /\ IsHandler(t)
        /\ phase[s] = "done" /\ phase[t] = "done"
        /\ response[t].status = 200 /\ ~response[t].body.cached
        /\ response[t].body \in before[s]
        /\ uuid[s] # uuid[t]
        /\ response[s].status = 200 /\ response[s].body.cached
        /\ now > response[s].body.searched_at + cache_ttl_days

\* C4: in every reachable state the table holds at most one record for an
\* identifier, pending records included.
C4_AtMostOneRecordPerIdentifier ==
    \A r1, r2 \in rows : r1.uuid = r2.uuid => r1 = r2

\* a handler request has stored a record and a caller's save of another
\* draft for the identifier has met it; a get or an exists was called too
C4_Witness ==
    \E s, t \in Sessions :
        /\ IsHandler(s) /\ phase[s] = "done"
        /\ response[s].status = 200 /\ ~response[s].body.cached
        /\ ~IsHandler(t)
        /\ Len(calls[t]) = 2
        /\ calls[t][1].op \in {"get", "exists"}
        /\ calls[t][2].op = "save" /\ calls[t][2].result = "duplicate"
        /\ Cardinality(Committed(normalized_uuid[s])) = 1

\* the save calls made so far, as pairs of a session and the position of
\* the call in its log
SaveCalls ==
    {c \in Sessions \X (1..(Len(HandlerOrder) + MaxDirectCalls)) :
        c[2] <= Len(calls[c[1]]) /\ calls[c[1]][c[2]].op = "save"}

\* C5: when two sessions have each called save for one canonical identifier
\* (and these are the only saves for it) and both sessions have ended,
\* exactly one of the calls returned the record, the other raised the
\* duplicate error, and exactly one record is stored for the identifier.
C5_ConcurrentSavesOneWins ==
    \A c, d \in SaveCalls :
        LET u == calls[c[1]][c[2]].arg
        IN  (/\ c[1] # d[1]
             /\ IsCanonical(u)
             /\ {x \in SaveCalls : calls[x[1]][x[2]].arg = u} = {c, d}
             /\ phase[c[1]] = "done" /\ phase[d[1]] = "done")
            => /\ {calls[c[1]][c[2]].result, calls[d[1]][d[2]].result} = {"saved", "duplicate"}
               /\ Cardinality({r \in rows : r.uuid = u}) = 1
               /\ Cardinality(Committed(u)) = 1

\* two callers of the cache service have saved for one identifier, the
\* loser after it had looked the identifier up and found nothing
C5_Witness ==
    \E s, t \in Sessions :
        /\ ~IsHandler(s) /\ ~IsHandler(t)
        /\ phase[s] = "done" /\ phase[t] = "done"
        /\ Len(calls[s]) = 1
        /\ calls[s][1].op = "save" /\ calls[s][1].result = "saved"
        /\ Len(calls[t]) = 2
        /\ calls[t][1].op = "get" /\ calls[t][1].result = "none"
        /\ calls[t][2].op = "save" /\ calls[t][2].result = "duplicate"
        /\ calls[t][2].arg = calls[s][1].arg

\* session s makes a call of save in this step
SavesNow(s) ==
    /\ Len(calls'[s]) = Len(calls[s]) + 1
    /\ calls'[s][Len(calls'[s])].op = "save"

C7_RaceLoserGetsInternalError ==
    \A s, t \in Sessions :
        (/\ s # t
         /\ IsHandler(s) /\ IsHandler(t)
         /\ phase[s] = "done" /\ phase[t] = "done"
         /\ normalized_uuid[s] = normalized_uuid[t]
         /\ IsCanonical(normalized_uuid[s])
         /\ Len(calls[s]) = 4 /\ Len(calls[t]) = 4
         /\ {c[1] : c \in {x \in SaveCalls : calls[x[1]][x[2]].arg = normalized_uuid[s]}} = {s, t})
        => /\ Ops(s) = HandlerOrder /\ Ops(t) = HandlerOrder
           /\ calls[s][1].result = "none" /\ calls[t][1].result = "none"
           /\ {response[s].status, response[t].status} = {200, 500}
           /\ \A x \in {s, t} : response[x].status = 200 => ~response[x].body.cached
           /\ \A x \in {s, t} : response[x].status = 500 => calls[x][4].result = "duplicate"

\* two requests for one identifier have both missed and both saved: one
\* was answered the record, the other HTTP 500
C7_Witness ==
    \E s, t \in Sessions :
        /\ s # t
        /\ IsHandler(s) /\ IsHandler(t)
        /\ phase[s] = "done" /\ phase[t] = "done"
        /\ normalized_uuid[s] = normalized_uuid[t]
        /\ Len(calls[s]) = 4 /\ Len(calls[t]) = 4
        /\ response[s].status = 200 /\ ~response[s].body.cached
        /\ response[t].status = 500
        /\ calls[t][4].result = "duplicate"

\* the results with which search_uuid ends after a failure of the provider
ProviderFailures == {"SearchServiceError", "TimeoutError", "Exception"}

\* the draft is what classify makes of identifier u without results: the
\* known service of u, or Unknown with confidence low
UnknownOrKnownService(u, draft) ==
    IF get_known_service(u).found
    THEN /\ draft.name = get_known_service(u).service.name
         /\ draft.description = get_known_service(u).service.description
         /\ draft.type = STANDARD_BLE_SERVICE
         /\ draft.confidence = HIGH
    ELSE /\ draft.name = <<"U","n","k","n","o","w","n">>
         /\ draft.type = UNKNOWN
         /\ draft.confidence = LOW
         /\ draft.sources = <<>>

Malformed(raw) ==
    LET clean == RemoveHyphens(raw)
    IN  ~(Len(clean) = 32 /\ \A i \in 1..Len(clean) : clean[i] \in HexChars)

\* C10 as the specification states it: a request with a malformed
\* identifier is answered HTTP 400 and has called no collaborator: no cache
\* read, no search, no classify, no save.
C10_MalformedRejectedFirst ==
    \A s \in Sessions :
        (IsHandler(s) /\ Malformed(uuid[s]))
        => /\ phase[s] \in {"respond", "done"}
           /\ response[s].status = 400
           /\ calls[s] = <<>>
           /\ classification[s] = NoDraft

\* ------------------------------------------- the classifier on any input

\* the Battery Service of the knowledge base, in canonical form
BatteryUuid == <<"0","0","0","0","1","8","0","f","-","0","0","0","0","-","1","0","0","0","-","8","0","0","0","-","0","0","8","0","5","f","9","b","3","4","f","b">>

\* an identifier in the Bluetooth SIG base form whose short code, 1815, is
\* not in the knowledge base
UnlistedSigUuid == <<"0","0","0","0","1","8","1","5","-","0","0","0","0","-","1","0","0","0","-","8","0","0","0","-","0","0","8","0","5","f","9","b","3","4","f","b">>

\* the canonical identifiers passed to classify
ClassifyUuids == {HeartRateUuid, BatteryUuid, UnlistedSigUuid, UnknownUuid}

\* one result with a beacon indicator and vendor indicators
ResultsBeacon ==
    <<
      [title |-> <<"A","p","p","l","e"," ","i","B","e","a","c","o","n"," ","P","r","o","x","i","m","i","t","y"," ","U","U","I","D">>,
       url |-> <<"h","t","t","p","s",":","/","/","d","e","v","e","l","o","p","e","r",".","a","p","p","l","e",".","c","o","m","/","i","b","e","a","c","o","n","/">>,
       snippet |-> <<"N","o","r","d","i","c"," ","n","R","F"," ","e","x","a","m","p","l","e"," ","o","f"," ","a","n"," ","i","B","e","a","c","o","n">>,
       position |-> 1]
    >>

\* result lists for the rules of the type, the name and the confidence:
\* three mentions of a name without an authoritative URL; matches that are
\* all stop words, on authoritative URLs; titles that clean to "Unknown"
\* and to nothing; both beacon indicators; an Eddystone indicator with a
\* vendor name; a vendor name alone
HeuristicResults ==
    {[k \in 1..3 |-> [title |-> <<"A","c","m","e"," ","S","e","n","s","o","r"," ","S","e","r","v","i","c","e">>, url |-> <<"h","t","t","p","s",":","/","/","e","x","a","m","p","l","e",".","c","o","m","/","a">>,
                      snippet |-> <<>>, position |-> k]],
     [k \in 1..3 |-> [title |-> <<"B","L","E"," ","S","e","r","v","i","c","e">>, url |-> <<"h","t","t","p","s",":","/","/","w","w","w",".","b","l","u","e","t","o","o","t","h",".","c","o","m","/","x">>,
                      snippet |-> <<"U","n","k","n","o","w","n">>, position |-> k]],
     <<[title |-> <<"U","n","k","n","o","w","n"," ","-"," ","B","l","u","e","t","o","o","t","h"," ","S","I","G">>, url |-> <<"h","t","t","p","s",":","/","/","w","w","w",".","b","l","u","e","t","o","o","t","h",".","c","o","m","/">>,
        snippet |-> <<>>, position |-> 1]>>,
     <<[title |-> <<" ","-"," ","B","l","u","e","t","o","o","t","h">>, url |-> <<"h","t","t","p","s",":","/","/","e","x","a","m","p","l","e",".","c","o","m","/","c">>,
        snippet |-> <<>>, position |-> 1]>>,
     <<[title |-> <<"i","B","e","a","c","o","n"," ","v","s"," ","E","d","d","y","s","t","o","n","e">>, url |-> <<"h","t","t","p","s",":","/","/","e","x","a","m","p","l","e",".","c","o","m","/","b">>,
        snippet |-> <<>>, position |-> 1]>>,
     <<[title |-> <<"E","d","d","y","s","t","o","n","e"," ","n","o","t","e","s">>, url |-> <<"h","t","t","p","s",":","/","/","e","x","a","m","p","l","e",".","c","o","m","/","e">>,
        snippet |-> <<"f","r","o","m"," ","S","a","m","s","u","n","g">>, position |-> 1]>>,
     <<[title |-> <<"S","a","m","s","u","n","g"," ","n","o","t","e","s">>, url |-> <<"h","t","t","p","s",":","/","/","e","x","a","m","p","l","e",".","c","o","m","/","s">>,
        snippet |-> <<>>, position |-> 1]>>}

\* the result lists passed to classify: none, the lists above, and lists of
\* more than MaxSources results of which all, all but the first or all but
\* the one after the MaxSources-th are usable
ClassifyResults ==
    {<<>>, ResultsHeartRate, ResultsWidget, ResultsAcme, ResultsBeacon}
      \cup HeuristicResults
      \cup {RankedResults(n, bad) : n \in (MaxSources + 1)..MaxResults,
                                    bad \in {{}, {1}, {MaxSources + 1}}}

UpperChar(c) == IF c \in LowerLetters THEN CHOOSE x \in UpperLetters : ToLower[x] = c ELSE c

\* str.upper()
Upper(t) == SubSeq([i \in 1..Len(t) |-> UpperChar(t[i])], 1, Len(t))

\* the forms in which a caller may write the canonical identifier u: as it
\* is, in upper case, without hyphens, and both
Forms(u) == {u, Upper(u), RemoveHyphens(u), Upper(RemoveHyphens(u))}

\* a caller awaits ClassifierService.classify(u, rs) in its session and
\* keeps the draft; an exception of classify ends the session
DirectClassify(s, u, rs) ==
    /\ MayCall(s)
    /\ classification[s] = NoDraft
    /\ \E draft \in {classify(u, rs, now)} :
        /\ calls' = [calls EXCEPT ![s] =
                        Append(@, Call("classify", u, IF draft.ok THEN "draft" ELSE "raised"))]
        /\ classification' = [classification EXCEPT ![s] = IF draft.ok THEN draft ELSE NoDraft]
        /\ search_results' = [search_results EXCEPT ![s] = rs]
        /\ phase' = [phase EXCEPT ![s] = IF draft.ok THEN "open" ELSE "done"]
        /\ UNCHANGED <<rows, now, uuid, normalized_uuid, response, before>>

\* the first session classifies an identifier with a result list, saves the
\* draft and closes; the second reads the identifier back, written in any
\* form, from the cache service or by a request to the handler
ClassifyNext ==
    \/ \E u \in ClassifyUuids, rs \in ClassifyResults : DirectClassify(1, u, rs)
    \/ MayCall(1) /\ classification[1].ok /\ DirectSave(1, classification[1])
    \/ DirectClose(1)
    \/ classification[1].ok /\ \E raw \in Forms(classification[1].uuid) : DirectGet(2, raw)
    \/ DirectClose(2)
    \/ classification[1].ok /\ \E raw \in Forms(classification[1].uuid) : HandlerStart(2, raw)
    \/ HandlerCacheGet(2)
    \/ HandlerSearch(2)
    \/ HandlerClassify(2)
    \/ HandlerSave(2)
    \/ HandlerFinish(2)

ClassifySpec == Init /\ [][ClassifyNext]_vars

\* --------------------------------------------- properties of the records

\* the response of session s carries a record
HasBody(s) == "body" \in DOMAIN response[s]

\* a record of type Unknown has confidence low
UnknownImpliesLow(r) == r.type = UNKNOWN => r.confidence = LOW

\* C11: every response record that get_classification, save_classification
\* or the handler returns has confidence low when its type is Unknown, also
\* when the draft or the stored row it is built from has type Unknown with
\* another confidence: the row is read as a hit with confidence low and the
\* save is answered with the record, neither ends with an error.
C11_ResponseUnknownImpliesLow ==
    /\ \A s \in Sessions : HasBody(s) => UnknownImpliesLow(response[s].body)
    /\ \A s \in Sessions : \A r \in Visible(s) :
          r.type = UNKNOWN =>
             /\ get_classification(s, r.uuid).kind = "hit"
             /\ get_classification(s, r.uuid).response.confidence = LOW
    /\ \A s \in Sessions : \A k \in 1..Len(calls[s]) :
          calls[s][k].op \in {"get", "save"} => calls[s][k].result # "error"

\* a draft of type Unknown with confidence medium has been saved and
\* answered with confidence low, and a request has been answered from the
\* stored row, whose confidence is medium, with confidence low
C11_Witness ==
    \E s, t \in Sessions :
        /\ ~IsHandler(s) /\ HasBody(s)
        /\ classification[s].ok
        /\ classification[s].type = UNKNOWN /\ classification[s].confidence = MEDIUM
        /\ ~response[s].body.cached /\ response[s].body.confidence = LOW
        /\ IsHandler(t) /\ phase[t] = "done" /\ response[t].status = 200
        /\ response[t].body.cached
        /\ response[t].body.type = UNKNOWN /\ response[t].body.confidence = LOW
        /\ \E r \in Committed(response[t].body.uuid) : r.confidence = MEDIUM

\* C12: every classification record the system constructs has confidence
\* low when its type is Unknown: the draft classify returns and the row
\* save writes.
C12_RecordUnknownImpliesLow ==
    /\ \A s \in Sessions : classification[s].ok => UnknownImpliesLow(classification[s])
    /\ \A r \in rows : UnknownImpliesLow(r)

\* C13: a draft that was saved and is read back by its identifier, written
\* in any form, comes back with the cached flag set and with the name, the
\* type, the confidence and the sources of the draft.
C13_CacheRoundTrip ==
    \A s, t \in Sessions :
        (/\ classification[s].ok
         /\ \E k \in 1..Len(calls[s]) :
               calls[s][k].op = "save" /\ calls[s][k].result = "saved"
         /\ \E k \in 1..Len(calls[t]) :
               calls[t][k].op = "get" /\ calls[t][k].result = "hit"
         /\ HasBody(t)
         /\ response[t].body.uuid = classification[s].uuid)
        => /\ response[t].body.cached
           /\ response[t].body.name = classification[s].name
           /\ response[t].body.type = classification[s].type
           /\ response[t].body.confidence = classification[s].confidence
           /\ response[t].body.sources = classification[s].sources

\* the drafts classify has returned: session s called classify with the
\* identifier u and the result list search_results[s], and holds the draft
Classified(s, u) ==
    \E k \in 1..Len(calls[s]) :
        calls[s][k].op = "classify" /\ calls[s][k].arg = u /\ calls[s][k].result = "draft"

\* the result can be made a source: its URL is a valid source URL
Usable(result) == HttpUrl(result.url).ok

\* C14: for a canonical identifier found in the knowledge base classify
\* returns the name and the description of that service with type Standard
\* BLE Service and confidence high, whatever the search results are; the
\* results only make the sources.
C14_KnownServiceShortCircuit ==
    \A s \in Sessions : \A u \in ClassifyUuids :
        (Classified(s, u) /\ get_known_service(u).found)
        => /\ classification[s].uuid = u
           /\ classification[s].name = get_known_service(u).service.name
           /\ classification[s].description = get_known_service(u).service.description
           /\ classification[s].type = STANDARD_BLE_SERVICE
           /\ classification[s].confidence = HIGH
           /\ classification[s].sources = _build_sources(search_results[s])

\* the Heart Rate identifier has been classified with a result that has a
\* beacon indicator and vendor indicators
C14_Witness ==
    \E s \in Sessions :
        /\ Classified(s, HeartRateUuid)
        /\ search_results[s] = ResultsBeacon
        /\ classification[s].type = STANDARD_BLE_SERVICE
        /\ Len(classification[s].sources) = 1

\* C15: for a canonical identifier without a knowledge-base match, one in
\* the Bluetooth SIG base form included, classify with no results returns
\* type Unknown, name "Unknown", confidence low, no sources and the fixed
\* description.
C15_EmptyResultsFallback ==
    \A s \in Sessions : \A u \in ClassifyUuids :
        (Classified(s, u) /\ ~get_known_service(u).found /\ search_results[s] = <<>>)
        => /\ classification[s].uuid = u
           /\ classification[s].type = UNKNOWN
           /\ classification[s].name = <<"U","n","k","n","o","w","n">>
           /\ classification[s].confidence = LOW
           /\ classification[s].sources = <<>>
           /\ classification[s].description = <<"U","n","a","b","l","e"," ","t","o"," ","i","d","e","n","t","i","f","y"," ","t","h","i","s"," ","U","U","I","D","."," ","N","o"," ","i","n","f","o","r","m","a","t","i","o","n"," ","f","o","u","n","d"," ","i","n"," ","s","e","a","r","c","h"," ","r","e","s","u","l","t","s",".">>

\* an identifier in the Bluetooth SIG base form that the knowledge base
\* does not list has been classified with no results
C15_Witness ==
    \E s \in Sessions :
        /\ Classified(s, UnlistedSigUuid)
        /\ is_bluetooth_sig_uuid(UnlistedSigUuid)
        /\ search_results[s] = <<>>
        /\ classification[s].type = UNKNOWN

\* C16: classify never fails: every call with a canonical identifier and a
\* result list, empty or with results whose URL is no valid source URL or
\* whose snippet is empty, returns a draft.
C16_ClassifyNeverFails ==
    \A s \in Sessions : \A k \in 1..Len(calls[s]) :
        (calls[s][k].op = "classify" /\ IsCanonical(calls[s][k].arg))
        => /\ calls[s][k].result = "draft"
           /\ classification[s].ok
           /\ classification[s].uuid = calls[s][k].arg

\* a draft has been returned for a list with a result whose URL is no valid
\* source URL and whose snippet is empty: the result is left out of the sources
C16_Witness ==
    \E s \in Sessions :
        /\ Classified(s, UnknownUuid)
        /\ \E k \in 1..Len(search_results[s]) :
              ~Usable(search_results[s][k]) /\ search_results[s][k].snippet = <<>>
        /\ classification[s].ok
        /\ Len(classification[s].sources) = Len(search_results[s]) - 1

\* C17: for an input with more than MaxSources usable results the record
\* has exactly MaxSources sources, the first usable results in rank order.
C17_SourceCap ==
    \A s \in Sessions : \A u \in ClassifyUuids :
        (Classified(s, u)
         /\ Len(SelectSeq(search_results[s], Usable)) > MaxSources)
        => /\ Len(classification[s].sources) = MaxSources
           /\ \A k \in 1..MaxSources :
                 classification[s].sources[k].title
                    = SelectSeq(search_results[s], Usable)[k].title

\* C17, amended: the sources of the record are the usable results among the
\* first MaxSources results, in rank order: exactly MaxSources of them when the
\* first MaxSources results are all usable, fewer when one of them is not,
\* however many usable results follow.
C17_SourcesFromFirstResults ==
    \A s \in Sessions : \A u \in ClassifyUuids :
        Classified(s, u)
        => /\ Len(classification[s].sources)
                 = Len(SelectSeq(Slice(search_results[s], 0, MaxSources), Usable))
           /\ \A k \in 1..Len(classification[s].sources) :
                 /\ classification[s].sources[k].title
                       = SelectSeq(Slice(search_results[s], 0, MaxSources), Usable)[k].title
                 /\ classification[s].sources[k].url
                       = HttpUrl(SelectSeq(Slice(search_results[s], 0, MaxSources), Usable)[k].url).val

\* more than MaxSources results are usable, the first result is not, and the
\* record has fewer than MaxSources sources
C17_Witness ==
    \E s \in Sessions :
        /\ Classified(s, UnknownUuid)
        /\ Len(SelectSeq(search_results[s], Usable)) > MaxSources
        /\ ~Usable(search_results[s][1])
        /\ Len(classification[s].sources) = MaxSources - 1

\* ------------------------------------------ a request in any written form

\* t with a hyphen put in after each of the given numbers of characters
InsertHyphens(t, after) ==
    Flatten([k \in 1..Len(t) |-> IF k \in after THEN <<t[k], "-">> ELSE <<t[k]>>])

\* the raw identifiers of a request: 32 hexadecimal characters in lower or
\* upper case with hyphens after any of the first 4, 8, 12, 16 and 20 of
\* them, and strings that are not 32 hexadecimal characters once their
\* hyphens are removed
RawForms ==
    {InsertHyphens(h, after) :
        h \in {RemoveHyphens(UnknownUuid), RawUnknownUpperNoHyphens},
        after \in SUBSET {4, 8, 12, 16, 20}}
      \cup {RawNotAUuid, RawTrailingNewline, <<"5","5","0","e","8","4","0","0","-","e","2","9","b","-","4","1","d","4">>,
            <<"Z","Z","Z","Z","Z","Z","Z","Z","-","Z","Z","Z","Z","-","Z","Z","Z","Z","-","Z","Z","Z","Z","-","Z","Z","Z","Z","Z","Z","Z","Z","Z","Z","Z","Z">>}

\* one request to classify_uuid_handler with any of the raw identifiers
RequestNext ==
    \/ \E raw \in RawForms : HandlerStart(1, raw)
    \/ HandlerCacheGet(1)
    \/ HandlerSearch(1)
    \/ HandlerSearchRaises(1)
    \/ HandlerClassify(1)
    \/ HandlerSave(1)
    \/ HandlerFinish(1)

RequestSpec == Init /\ [][RequestNext]_vars

\* t is exactly 32 hexadecimal characters
Is32Hex(t) == Len(t) = 32 /\ \A i \in 1..Len(t) : t[i] \in HexChars

\* C18: normalization is idempotent. For every raw identifier that
\* normalize_uuid accepts, of db.models and of the schemas alike, the normal
\* form is accepted again and is its own normal form; so the identifier the
\* handler normalized is the one the cache service, the draft, the stored
\* row and the response carry after they have normalized it again.
C18_NormalizeIdempotent ==
    \A s \in Sessions :
        /\ models_normalize_uuid(uuid[s]).ok
           => models_normalize_uuid(models_normalize_uuid(uuid[s]).val)
                 = models_normalize_uuid(uuid[s])
        /\ validate_and_normalize_uuid(uuid[s]).ok
           => validate_and_normalize_uuid(schemas_normalize_uuid(uuid[s]))
                 = [ok |-> TRUE, val |-> schemas_normalize_uuid(uuid[s])]
        /\ (IsHandler(s) /\ phase[s] \notin {"idle", "respond", "done"})
           => normalized_uuid[s] = models_normalize_uuid(uuid[s]).val
        /\ IsHandler(s)
           => /\ \A k \in 1..Len(calls[s]) : calls[s][k].arg = normalized_uuid[s]
              /\ classification[s].ok => classification[s].uuid = normalized_uuid[s]
              /\ \A r \in rows : r.by = s => r.uuid = normalized_uuid[s]
              /\ HasBody(s) => response[s].body.uuid = normalized_uuid[s]

\* a request in another form than the normal one has been answered with a
\* record that was stored under the normal form
C18_Witness ==
    \E s \in Sessions :
        /\ IsHandler(s) /\ phase[s] = "done"
        /\ uuid[s] # normalized_uuid[s]
        /\ response[s].status = 200
        /\ response[s].body.uuid = normalized_uuid[s]
        /\ Committed(normalized_uuid[s]) # {}

\* C19: a raw identifier is rejected with a format error exactly when it is
\* not 32 hexadecimal characters once its hyphens are removed, wherever the
\* hyphens are.
C19_RejectedExactlyWhenNot32Hex ==
    \A s \in Sessions :
        IsHandler(s)
        => /\ models_normalize_uuid(uuid[s]).ok <=> Is32Hex(RemoveHyphens(uuid[s]))
           /\ validate_uuid_format(uuid[s]).ok <=> Is32Hex(RemoveHyphens(uuid[s]))
           /\ phase[s] = "done"
              => (response[s].status = 400 <=> ~Is32Hex(RemoveHyphens(uuid[s])))

\* C20: two raw identifiers that are accepted and differ only in the case
\* of their letters or in their hyphens have the same normal form, which is
\* canonical: lower-case hexadecimal digits in groups of 8, 4, 4, 4 and 12;
\* the response of the handler carries it.
C20_CaseAndFormatInvariance ==
    \A s \in Sessions :
        (IsHandler(s) /\ validate_uuid_format(uuid[s]).ok)
        => /\ IsCanonical(validate_uuid_format(uuid[s]).val)
           /\ models_normalize_uuid(uuid[s]).val = validate_uuid_format(uuid[s]).val
           /\ \A raw \in RawForms :
                 (/\ validate_uuid_format(raw).ok
                  /\ Lower(RemoveHyphens(raw)) = Lower(RemoveHyphens(uuid[s])))
                 => validate_uuid_format(raw).val = validate_uuid_format(uuid[s]).val
           /\ (phase[s] = "done" /\ response[s].status = 200)
              => response[s].body.uuid = validate_uuid_format(uuid[s]).val

\* ------------------------------------- the cache service on any argument

\* the arguments of get_classification and exists: an identifier in its
\* canonical form and in another form, a second identifier, and strings
\* normalize_uuid rejects or accepts with a newline at their end
CacheInputs ==
    {UnknownUuid, RawUnknownUpperNoHyphens, HeartRateUuid, RawNotAUuid,
     RawTrailingNewline, <<>>}

\* the drafts passed to save_classification at time t: the two drafts for
\* one identifier and the draft of a second identifier
CacheDrafts(t) == SaveInputs(t) \cup {classify(HeartRateUuid, <<>>, t)}

\* the keys of the SELECT statements get_classification and exists execute
\* for the argument u: the statement is built from the normalized
\* identifier, and the early return on ValueError comes before it
Statements(u) ==
    IF models_normalize_uuid(u).ok THEN {models_normalize_uuid(u).val} ELSE {}

\* the first session saves drafts and closes; the second calls
\* get_classification, exists and save_classification with any argument
CacheNext ==
    \/ MayCall(1) /\ \E data \in CacheDrafts(now) : DirectSave(1, data)
    \/ DirectClose(1)
    \/ \E raw \in CacheInputs : DirectGet(2, raw)
    \/ \E raw \in CacheInputs : DirectExists(2, raw)
    \/ MayCall(2) /\ \E data \in CacheDrafts(now) : DirectSave(2, data)
    \/ DirectClose(2)

CacheSpec == Init /\ [][CacheNext]_vars

\* session s makes a call of get_classification or exists in this step
ProbesNow(s) ==
    /\ Len(calls'[s]) = Len(calls[s]) + 1
    /\ calls'[s][Len(calls'[s])].op \in {"get", "exists"}

\* C21: get_classification and exists tolerate a malformed identifier. When
\* normalize_uuid rejects the argument, get_classification returns None and
\* exists returns False, neither raises, no SELECT statement is executed
\* and the call leaves the table as it is, whatever records the table holds.
C21_MalformedIsAMiss ==
    /\ [](\A s \in Sessions : \A k \in 1..Len(calls[s]) :
            (/\ calls[s][k].op \in {"get", "exists"}
             /\ ~models_normalize_uuid(calls[s][k].arg).ok)
            => /\ calls[s][k].result = (IF calls[s][k].op = "get" THEN "none" ELSE "false")
               /\ Statements(calls[s][k].arg) = {})
    /\ [][\A s \in Sessions :
            (ProbesNow(s) /\ ~models_normalize_uuid(calls'[s][Len(calls'[s])].arg).ok)
            => rows' = rows]_vars

\* with a committed record in the table, a session has called
\* get_classification and exists with arguments normalize_uuid rejects
C21_Witness ==
    \E s \in Sessions :
        /\ Len(calls[s]) = 2
        /\ calls[s][1].op = "get" /\ calls[s][2].op = "exists"
        /\ calls[s][1].arg = RawNotAUuid /\ calls[s][2].arg = <<>>
        /\ calls[s][1].result = "none" /\ calls[s][2].result = "false"
        /\ \E r \in rows : r.committed

\* ----------------------------------- the search service on any outcome

\* the outcomes of a search: those above, and a response with more than
\* max_results items, the second of which has no title
SearchOutcomes ==
    ProviderOutcomes
      \cup {[kind |-> "response",
             organic_results |->
                Organic([RankedResults(MaxResults, {}) EXCEPT ![2].title = <<>>]
                          \o RankedResults(MaxResults, {}))]}

\* a caller awaits SearchService.search_uuid(u) and keeps the results
DirectSearch(s, u, api_key, provider) ==
    /\ MayCall(s)
    /\ search_results' = [search_results EXCEPT ![s] = search_uuid(api_key, provider)]
    /\ calls' = [calls EXCEPT ![s] =
                    Append(@, Call("search", u, IF ~api_key THEN "no_api_key" ELSE provider.kind))]
    /\ phase' = [phase EXCEPT ![s] = "open"]
    /\ UNCHANGED <<rows, now, uuid, normalized_uuid, classification, response, before>>

\* two callers search, with and without an API key
SearchNext ==
    \/ \E api_key \in BOOLEAN, provider \in SearchOutcomes :
          DirectSearch(1, UnknownUuid, api_key, provider)
    \/ DirectClose(1)
    \/ \E api_key \in BOOLEAN, provider \in SearchOutcomes :
          DirectSearch(2, HeartRateUuid, api_key, provider)
    \/ DirectClose(2)

SearchSpec == Init /\ [][SearchNext]_vars

\* C22: search_uuid never raises for a failure of the provider. A
\* SearchServiceError, a timeout or any other exception of the search or of
\* the parsing is answered with an empty list, and so is a missing API key,
\* for which no search is executed. On a response search_uuid returns the
\* items that make a SearchResult, in the order of the provider, and at
\* most max_results of them.
C22_SearchAbsorbsProviderFailures ==
    \A s \in Sessions :
        (Len(calls[s]) >= 1 /\ calls[s][Len(calls[s])].op = "search")
        => /\ calls[s][Len(calls[s])].result
                 \in ProviderFailures \cup {"no_api_key", "response"}
           /\ calls[s][Len(calls[s])].result # "response" => search_results[s] = <<>>
           /\ Len(search_results[s]) <= max_results
           /\ calls[s][Len(calls[s])].result = "response" =>
                 \E p \in {x \in SearchOutcomes : x.kind = "response"} :
                    LET kept == SelectSeq(p.organic_results,
                                          LAMBDA i : /\ Len(i.title) >= 1
                                                     /\ Len(i.link) >= 1
                                                     /\ i.position >= 1)
                    IN  /\ Len(search_results[s])
                              = (IF Len(kept) <= max_results THEN Len(kept) ELSE max_results)
                        /\ \A k \in 1..Len(search_results[s]) :
                              /\ search_results[s][k].title = kept[k].title
                              /\ search_results[s][k].url = kept[k].link
                              /\ search_results[s][k].snippet = kept[k].snippet
                              /\ search_results[s][k].position = kept[k].position

\* a response of more than max_results items, the second of which makes no
\* SearchResult, has come back as max_results results, and a search whose
\* provider timed out has come back empty
C22_Witness ==
    \E s, t \in Sessions :
        /\ Len(calls[s]) >= 1
        /\ calls[s][Len(calls[s])].result = "response"
        /\ Len(search_results[s]) = max_results
        /\ search_results[s][1].position = 1
        /\ search_results[s][2].position = 3
        /\ Len(calls[t]) >= 1
        /\ calls[t][Len(calls[t])].result = "TimeoutError"
        /\ search_results[t] = <<>>

\* ------------------------------------------- the rules of the classifier

\* C23: the confidence rule. For a draft made from a non-empty result list
\* (no knowledge-base match), with m the number of results whose title and
\* snippet, in lower case, contain the name of the draft in lower case and a
\* the number of results with an authoritative URL: when the name is not
\* "Unknown" the confidence is high iff m >= 3 and a >= 1, otherwise medium
\* iff m >= 2 or a >= 1, otherwise low; when the name is "Unknown" the
\* confidence is low whatever m and a are.
C23_ConfidenceRule ==
    \A s \in Sessions : \A u \in ClassifyUuids :
        (Classified(s, u) /\ ~get_known_service(u).found /\ search_results[s] # <<>>)
        => LET rs == search_results[s]
               m == Cardinality({k \in 1..Len(rs) :
                       Contains(Lower(rs[k].title \o <<" ">> \o rs[k].snippet),
                                Lower(classification[s].name))})
               a == Cardinality({k \in 1..Len(rs) : is_authoritative_source(rs[k].url)})
           IN  IF classification[s].name = <<"U","n","k","n","o","w","n">>
               THEN classification[s].confidence = LOW
               ELSE /\ classification[s].confidence = HIGH <=> (m >= 3 /\ a >= 1)
                    /\ classification[s].confidence = MEDIUM
                          <=> (~(m >= 3 /\ a >= 1) /\ (m >= 2 \/ a >= 1))
                    /\ classification[s].confidence = LOW <=> (m < 2 /\ a < 1)

\* a draft whose name three results mention, none of them on an
\* authoritative URL, has confidence medium; its record has been read back
C23_Witness ==
    \E s, t \in Sessions :
        /\ Classified(s, UnknownUuid)
        /\ classification[s].name = <<"A","c","m","e"," ","S","e","n","s","o","r">>
        /\ Len(search_results[s]) = 3
        /\ \A k \in 1..3 : ~is_authoritative_source(search_results[s][k].url)
        /\ classification[s].confidence = MEDIUM
        /\ HasBody(t) /\ response[t].body.cached
        /\ response[t].body.confidence = MEDIUM

\* C24: the type of a draft made from a non-empty result list (no
\* knowledge-base match) is decided by the first rule that matches the
\* combined text of the results, in this order: an iBeacon indicator gives
\* Apple iBeacon; else an Eddystone indicator gives Google Eddystone; else
\* an identifier in the Bluetooth SIG base form gives Standard BLE Service;
\* else a vendor indicator gives Vendor-Specific; else a generic BLE term
\* gives Custom Service; else Unknown. So a text with both beacon
\* indicators gives the Apple type, and an identifier in the base form gives
\* the standard type with vendor names in the text but a beacon type with a
\* beacon indicator in it.
C24_TypeFirstMatchWins ==
    \A s \in Sessions : \A u \in ClassifyUuids :
        (Classified(s, u) /\ ~get_known_service(u).found /\ search_results[s] # <<>>)
        => LET text == Lower(_combine_result_text(search_results[s]))
               ibeacon == AnyIn(IBEACON_INDICATORS, text)
               eddystone == AnyIn(EDDYSTONE_INDICATORS, text)
               base_form == is_bluetooth_sig_uuid(u)
               vendor == AnyIn(VENDOR_INDICATORS, text)
               generic == AnyIn(ble_indicators, text)
               type == classification[s].type
           IN  /\ type = APPLE_IBEACON <=> ibeacon
               /\ type = GOOGLE_EDDYSTONE <=> (~ibeacon /\ eddystone)
               /\ type = STANDARD_BLE_SERVICE <=> (~ibeacon /\ ~eddystone /\ base_form)
               /\ type = VENDOR_SPECIFIC
                     <=> (~ibeacon /\ ~eddystone /\ ~base_form /\ vendor)
               /\ type = CUSTOM_SERVICE
                     <=> (~ibeacon /\ ~eddystone /\ ~base_form /\ ~vendor /\ generic)
               /\ type = UNKNOWN
                     <=> (~ibeacon /\ ~eddystone /\ ~base_form /\ ~vendor /\ ~generic)

\* an identifier in the base form that the knowledge base does not list has
\* been classified with a text that has both beacon indicators: the draft
\* has the Apple type
C24_Witness ==
    \E s \in Sessions :
        /\ Classified(s, UnlistedSigUuid)
        /\ is_bluetooth_sig_uuid(UnlistedSigUuid)
        /\ AnyIn(IBEACON_INDICATORS, Lower(_combine_result_text(search_results[s])))
        /\ AnyIn(EDDYSTONE_INDICATORS, Lower(_combine_result_text(search_results[s])))
        /\ classification[s].type = APPLE_IBEACON

\* C25: the name fallback. Whenever no name candidate survives for a
\* non-empty result list, because no pattern matched at all or because
\* every match was discarded as shorter than MinNameLength characters or as
\* a stop word, the name of the draft is the cleaned title of the first
\* result if that is not empty and not "unknown", and "Unknown" otherwise.
C25_NameFallback ==
    \A s \in Sessions : \A u \in ClassifyUuids :
        (Classified(s, u) /\ ~get_known_service(u).found /\ search_results[s] # <<>>)
        => LET cleaned == _clean_title_for_name(search_results[s][1].title)
           IN  normalized_names(potential_names(search_results[s])) = <<>>
               => classification[s].name
                     = (IF cleaned # <<>> /\ Lower(cleaned) # <<"u","n","k","n","o","w","n">>
                        THEN cleaned ELSE <<"U","n","k","n","o","w","n">>)

\* C26: for every call of classify, the knowledge-base branch included, the
\* draft has at most 5 sources, and they are the results among the first
\* five whose URL is a valid source URL, in their order, each with its
\* title, its URL in normal form and its snippet, an empty snippet replaced
\* by "No snippet available"; a result ranked sixth or later is no source.
C26_SourcesOfEveryDraft ==
    \A s \in Sessions : \A u \in ClassifyUuids :
        Classified(s, u)
        => LET usable == SelectSeq(Slice(search_results[s], 0, 5), Usable)
               sources == classification[s].sources
           IN  /\ Len(sources) <= 5
               /\ Len(sources) = Len(usable)
               /\ \A k \in 1..Len(sources) :
                     /\ sources[k].title = usable[k].title
                     /\ sources[k].url = HttpUrl(usable[k].url).val
                     /\ sources[k].snippet
                           = (IF usable[k].snippet = <<>>
                              THEN <<"N","o"," ","s","n","i","p","p","e","t"," ","a","v","a","i","l","a","b","l","e">>
                              ELSE usable[k].snippet)
               /\ \A j \in 6..Len(search_results[s]) : \A k \in 1..Len(sources) :
                     sources[k].title # search_results[s][j].title

\* the Heart Rate identifier, which the knowledge base lists, has been
\* classified with more than five results, of which the draft has five,
\* and with a result that has no snippet, which the draft has with the
\* placeholder
C26_Witness ==
    \E s, t \in Sessions :
        /\ Classified(s, HeartRateUuid)
        /\ Len(search_results[s]) > 5
        /\ Len(classification[s].sources) = 5
        /\ Classified(t, HeartRateUuid)
        /\ Len(search_results[t]) >= 1
        /\ search_results[t][1].snippet = <<>>
        /\ Len(classification[t].sources) >= 1
        /\ classification[t].sources[1].snippet = <<"N","o"," ","s","n","i","p","p","e","t"," ","a","v","a","i","l","a","b","l","e">>

\* C27: a save that fails with the duplicate error leaves the table as it
\* was before the call: every record the session saved earlier, one that is
\* flushed and not yet committed included, is still returned by
\* get_classification and reported by exists after it.
C27_DuplicateSaveLeavesStore ==
    [][\A s \in Sessions :
          (SavesNow(s) /\ calls'[s][Len(calls'[s])].result = "duplicate")
          => /\ rows' = rows
             /\ \A k \in 1..Len(calls[s]) :
                   (calls[s][k].op = "save" /\ calls[s][k].result = "saved")
                   => /\ exists(s, calls[s][k].arg)'
                      /\ get_classification(s, calls[s][k].arg).kind' = "hit"]_vars

\* C29: in every reachable state and for every argument, exists is true
\* exactly when get_classification returns a record, before and after any
\* saves, committed or not; and the answers the callers were given agree
\* with it: neither call changes the table.
C29_ExistsIffGet ==
    /\ [](\A s \in Sessions : \A raw \in CacheInputs :
            exists(s, raw) <=> get_classification(s, raw).kind = "hit")
    /\ [][\A s \in Sessions :
            ProbesNow(s)
            => /\ rows' = rows
               /\ calls'[s][Len(calls'[s])].result \in {"true", "hit"}
                     <=> exists(s, calls'[s][Len(calls'[s])].arg)]_vars

\* a session has saved a record and not yet committed it, and has asked
\* exists for the identifier written in another form than the canonical
\* one: it is answered true and would be given the record, while another
\* session is answered false and given none
C29_Witness ==
    \E s, t \in Sessions :
        /\ s # t
        /\ Len(calls[s]) = 2
        /\ calls[s][1] = Call("save", UnknownUuid, "saved")
        /\ calls[s][2] = Call("exists", RawUnknownUpperNoHyphens, "true")
        /\ \E r \in rows : r.by = s /\ ~r.committed /\ r.uuid = UnknownUuid
        /\ get_classification(s, RawUnknownUpperNoHyphens).kind = "hit"
        /\ ~exists(t, RawUnknownUpperNoHyphens)
        /\ get_classification(t, RawUnknownUpperNoHyphens).kind = "none"

\* ------------------------------------------- a request that ends in HTTP 500

\* the request of session s has reached the handler's except clause: it is
\* answered, or about to be answered, with HTTP 500
EndsInError(s) ==
    IsHandler(s) /\ phase[s] \in {"respond", "done"} /\ response[s].status = 500

\* C28: a request that ends in an internal error persists nothing. When
\* save_classification has raised the duplicate error the session is already
\* rolled back and holds no row; once get_db_session has ended the session
\* of a request answered with HTTP 500, the table holds no row of it,
\* committed or not; and neither the step at which search, classify or save
\* raises nor the end of that session changes a row of another session or
\* the rows a statement of another session sees, so a later
\* get_classification or exists sees what it saw before the request.
C28_ErrorPersistsNothing ==
    /\ [](\A s \in Sessions :
            /\ (EndsInError(s) /\ phase[s] = "done")
               => \A r \in rows : r.by # s
            /\ (/\ EndsInError(s)
                /\ calls[s] # <<>>
                /\ calls[s][Len(calls[s])] = Call("save", normalized_uuid[s], "duplicate"))
               => \A r \in rows : r.by # s)
    /\ [][\A s \in Sessions :
            (EndsInError(s)' /\ phase'[s] # phase[s])
            => /\ {r \in rows' : r.by # s} = {r \in rows : r.by # s}
               /\ \A t \in Sessions \ {s} : Visible(t)' = Visible(t)]_vars

\* one request found no record, searched, classified and met the duplicate
\* error at its save, because the other request committed its record for the
\* identifier in between; it ended with HTTP 500, and the table holds the
\* record of the other request alone
C28_Witness ==
    \E s, t \in Sessions :
        /\ s # t
        /\ EndsInError(s) /\ phase[s] = "done"
        /\ Ops(s) = HandlerOrder
        /\ calls[s][1].result = "none"
        /\ calls[s][4].result = "duplicate"
        /\ phase[t] = "done" /\ IsHandler(t) /\ response[t].status = 200
        /\ rows # {}
        /\ \A r \in rows : r.by = t /\ r.committed /\ r.uuid = normalized_uuid[s]

\* ------------------------------------------------ canonical identifiers only

\* C30: every identifier that reaches the classifier or is used as a key of
\* the table is in canonical form. After any sequence of handler requests
\* and save calls, every identifier the handler has passed to search_uuid
\* and to classify, the identifier of every draft the classifier made and
\* the key of every row of the table is canonical.
C30_CanonicalEverywhere ==
    /\ \A r \in rows : IsCanonical(r.uuid)
    /\ \A s \in Sessions :
          /\ \A k \in 1..Len(calls[s]) :
                calls[s][k].op \in {"search", "classify"} => IsCanonical(calls[s][k].arg)
          /\ (IsHandler(s) /\ classification[s] # NoDraft)
             => IsCanonical(classification[s].uuid)

=============================================================================
